---- MODULE Spec2Model ----
(***************************************************************************)
(* A model of WebRTCHandler (src/unnamed/part_000): the signaling socket,  *)
(* the peerConnections map, the RTCPeerConnection objects it creates and   *)
(* the async handlers, which the event loop interleaves at every await.    *)
(*                                                                         *)
(* One action is one run of the event loop: a callback or an API call from *)
(* its first statement to its first await (or its return), or the          *)
(* continuation of a suspended handler from the settling of the promise it *)
(* awaits to its next await (or its return).  The platform's operations on *)
(* one RTCPeerConnection settle in the order they were called (the         *)
(* operations chain of the WebRTC API); operations on different            *)
(* connections settle in any order.                                        *)
(*                                                                         *)
(* The first part is one handler with everything its socket, its           *)
(* connections and the application can do to it.  The second part (the     *)
(* meeting) is one handler per participant joined through the relay of     *)
(* QUICKSTART.md, with FIFO sockets in both directions.                    *)
(***************************************************************************)
EXTENDS Integers, Sequences, FiniteSets, TLC

\* ------------------------------------------------------------------ bounds
\* Socket events, inbound signaling messages and API calls of one run.
MaxEvents == 5
\* RTCPeerConnection objects constructed in one run.
MaxPcs == 3
\* Async handlers suspended at an await at the same time.
MaxTasks == 2
\* Messages between the participants and the relay, and async handlers
\* suspended at an await, at the same time in the whole meeting.
MaxInFlight == 3

\* ------------------------------------------------------------- the inputs
\* this.userId, and the ids of the other participants of the meeting.
SelfId == "u1"
Remotes == {"u2", "u3"}
Users == {SelfId} \cup Remotes
\* this.localStream.getTracks()
LocalStreamTracks == {"mic", "cam"}
\* The track handed to addScreenShareTrack / removeScreenShareTrack.
ScreenTracks == {"screen"}
\* Session descriptions of inbound offers and answers: one the platform
\* accepts and one it rejects as malformed.
Sdps == {"sdp", "garbage"}
\* Candidates of inbound ice-candidate messages: two well-formed ones, one
\* the platform rejects, and the falsy candidate of end-of-candidates.
Candidates == {"c1", "c2", "cbad", "null"}

\* Payloads an application hands to sendSignal itself: one that names a
\* sender of its own and one that names none.
SignalPayloads == {[type |-> "custom", from |-> "u2"], [type |-> "custom"]}
\* The candidates of a connection's icecandidate events: a candidate, and
\* the null candidate that ends gathering.
LocalCandidates == {"l1", "null"}
\* The inbound message types that only tell of a participant's media.
NotificationTypes == {"media-state-change", "screen-share-started", "screen-share-stopped"}
\* Inbound message types the handler does not know: one it never heard of,
\* and the undefined of a message without a type.
UnknownTypes == {"ping", "undefined"}
\* Inbound messages as parsed from the socket: the events of the room, the
\* directed messages with and without their to field, and messages of
\* unknown or no type.
InboundMessages ==
    {[type |-> "user-joined", userId |-> u] : u \in Users}
    \cup {[type |-> "user-left", userId |-> u] : u \in Remotes}
    \cup {[type |-> t, from |-> u, sdp |-> "sdp", to |-> SelfId] :
             t \in {"offer", "answer"}, u \in Remotes}
    \cup {[type |-> t, from |-> u, sdp |-> "sdp"] : t \in {"offer", "answer"}, u \in Remotes}
    \cup {[type |-> "ice-candidate", from |-> u, candidate |-> "c1", to |-> SelfId] :
             u \in Remotes}
    \cup {[type |-> "ice-candidate", from |-> u, candidate |-> "c1"] : u \in Remotes}
    \cup {[type |-> "ping", from |-> "u2"], [from |-> "u2"]}
\* message.k: undefined when the message has no such field.
Field(message, k) == IF k \in DOMAIN message THEN message[k] ELSE "undefined"
\* pc.connectionState as a connectionstatechange event finds it.
ConnectionStates == {"connecting", "connected", "disconnected", "failed"}
\* The tracks of the track events of a connection, and event.streams of the
\* event that brings each: one stream, two streams, no stream.
RemoteTracks == {"audio", "video", "bare"}
EventStreams(track) ==
    CASE track = "audio" -> <<"s1">>
      [] track = "video" -> <<"s1", "s2">>
      [] OTHER -> <<>>

VARIABLES
    ws,              \* this.ws with its readyState: null, connecting, open, closed
    peerConnections, \* this.peerConnections: the Map's entries in insertion order
    pcs,             \* the RTCPeerConnection objects constructed so far, by handle
    tasks,           \* the handlers suspended at an await, oldest pending operation first
    last,            \* what the run of the event loop that led here did
    present,         \* the participants announced by user-joined and not yet by user-left
    hist,            \* what the runs so far did to the socket and to the shared tracks
    onRemoteStream,  \* this.onRemoteStream: whether the application set a callback
                     \* (set), and the calls the callback received (calls)
    onParticipantUpdate,  \* this.onParticipantUpdate: the same for that callback
    nEvents          \* socket events, inbound messages and API calls so far

\* The meeting as a whole: one handler per participant and the relay of
\* QUICKSTART.md between them.
VARIABLES
    clients,         \* per participant: its handler's ws, peerConnections, pcs and tasks
    up,              \* per participant: what it wrote to its socket, not yet read by the relay
    down,            \* per participant: what the relay wrote to its socket, not yet dispatched
    server           \* the relay: the sockets of the room and those whose userId is set

\* The page's other shared objects: the MeetingLogger instance and the
\* NovaState session store, with the browser state they read and write.
VARIABLES
    logger,          \* the MeetingLogger: config, logs, eventCounts, errorCounts
    localStorage,    \* localStorage's 'meetingLogs' item: whether set, and the array in it
    logged,          \* the entries loaded or logged since the logs were last reset
    sessionStorage,  \* sessionStorage's nova_jwt, nova_user, nova_meeting_code items
    now,             \* Date.now(), in milliseconds
    called           \* the last call on the logger or on NovaState, and what it returned

handlerVars ==
    <<ws, peerConnections, pcs, tasks, last, present, hist, onRemoteStream,
      onParticipantUpdate, nEvents>>
meshVars == <<clients, up, down, server>>
pageVars == <<logger, localStorage, logged, sessionStorage, now, called>>
vars == <<handlerVars, meshVars, pageVars>>

\* ---------------------------------------------------------- the Map (ES2015)
MapKeys(m) == {m[i].userId : i \in DOMAIN m}
MapHas(m, k) == k \in MapKeys(m)
MapGet(m, k) == m[CHOOSE i \in DOMAIN m : m[i].userId = k].pc
MapSet(m, k, v) ==
    IF MapHas(m, k)
    THEN [i \in DOMAIN m |-> IF m[i].userId = k THEN [userId |-> k, pc |-> v] ELSE m[i]]
    ELSE Append(m, [userId |-> k, pc |-> v])
\* (delete() forgotten: the entry stays)
MapDeleteKeepsEntry(m, k) == m
MapDelete(m, k) == SelectSeq(m, LAMBDA e : e.userId # k)
\* The keys a fresh iterator of the Map will visit, in order.
MapOrder(m) == [i \in DOMAIN m |-> m[i].userId]

SeqRange(s) == {s[i] : i \in DOMAIN s}

\* A live Map iterator visits the entries after its position: a deleted
\* entry is skipped, an entry appended while it runs is visited.
FanOutKinds == {"addScreenShareTrack", "removeScreenShareTrack"}
IterDelete(ts, k) ==
    [i \in DOMAIN ts |->
        IF ts[i].kind \in FanOutKinds
        THEN [ts[i] EXCEPT !.rest = SelectSeq(@, LAMBDA x : x # k)]
        ELSE ts[i]]
IterAppend(ts, k) ==
    [i \in DOMAIN ts |->
        IF ts[i].kind \in FanOutKinds
        THEN [ts[i] EXCEPT !.rest = Append(@, k)]
        ELSE ts[i]]
IterClear(ts) ==
    [i \in DOMAIN ts |->
        IF ts[i].kind \in FanOutKinds THEN [ts[i] EXCEPT !.rest = <<>>] ELSE ts[i]]

\* ------------------------------------------------------- RTCPeerConnection
\* new RTCPeerConnection(...): signalingState "stable", no descriptions, no
\* senders; userId is the id its callbacks close over.  candidates are the
\* remote candidates the platform accepted, in order; received records the
\* well-formed candidates signaling delivered for the connection, in order.
NewPc(userId) ==
    [userId |-> userId, signalingState |-> "stable", remoteDescription |-> FALSE,
     localDescription |-> FALSE, senders |-> {}, candidates |-> <<>>,
     received |-> <<>>]

\* pc.addTrack throws on a closed connection and for a track that already
\* has a sender.
AddTrackThrows(pc, track) == pc.signalingState = "closed" \/ track \in pc.senders
AddTrack(pc, track) == [pc EXCEPT !.senders = @ \cup {track}]
AddTracks(pc, trks) == [pc EXCEPT !.senders = @ \cup trks]
\* (close() forgotten: the connection stays as it is)
PcCloseStaysOpen(pc) == pc
PcClose(pc) == [pc EXCEPT !.signalingState = "closed"]

\* The platform either rolls a pending local offer back when a remote offer
\* is applied (implicit rollback) or rejects the remote offer: both exist.
RollbackChoices == {TRUE, FALSE}

ValidSdp(sdp) == sdp = "sdp"
ValidCandidate(c) == c \in {"c1", "c2"}

\* The description a handler's setLocalDescription / setRemoteDescription
\* carries: the handlers of user-joined and of the screen-share fan-outs set
\* a local offer, handleOffer a remote offer and a local answer, handleAnswer
\* a remote answer.
Offerers == {"handleUserJoined", "addScreenShareTrack", "removeScreenShareTrack"}

\* Whether the operation task t awaits on connection p is fulfilled (TRUE)
\* or rejected (FALSE) when the operations chain reaches it.
OpFulfilled(p, t, rollback) ==
    CASE t.at = "createOffer" ->
            p.signalingState \in {"stable", "have-local-offer"}
      [] t.at = "createAnswer" ->
            p.signalingState = "have-remote-offer"
      [] t.at = "setLocalDescription" ->
            IF t.kind \in Offerers
            THEN p.signalingState \in {"stable", "have-local-offer"}
            ELSE p.signalingState = "have-remote-offer"
      [] t.at = "setRemoteDescription" ->
            /\ ValidSdp(t.arg)
            /\ IF t.kind = "handleOffer"
               THEN \/ p.signalingState \in {"stable", "have-remote-offer"}
                    \/ p.signalingState = "have-local-offer" /\ rollback
               ELSE p.signalingState = "have-local-offer"
      [] t.at = "addIceCandidate" ->
            /\ p.signalingState # "closed"
            /\ p.remoteDescription
            /\ ValidCandidate(t.arg)

\* The connection after the fulfilled operation of task t.
OpEffect(p, t) ==
    CASE t.at = "setLocalDescription" ->
            [p EXCEPT !.localDescription = TRUE,
                      !.signalingState =
                          IF t.kind \in Offerers THEN "have-local-offer" ELSE "stable"]
      [] t.at = "setRemoteDescription" ->
            [p EXCEPT !.remoteDescription = TRUE,
                      !.signalingState =
                          IF t.kind = "handleOffer" THEN "have-remote-offer" ELSE "stable"]
      [] t.at = "addIceCandidate" ->
            [p EXCEPT !.candidates = Append(@, t.arg)]
      [] OTHER -> p

\* ------------------------------------------------------------- sendSignal
\* What sendSignal(data) writes to the socket whose state is w.
\* (from: this.userId written before ...data, so that the payload's wins)
SendSignalPayloadWins(w, data) ==
    IF w = "open"
    THEN <<[k \in DOMAIN data \cup {"from"} |-> IF k \in DOMAIN data THEN data[k] ELSE SelfId]>>
    ELSE <<>>
\* (the test of readyState forgotten: the socket buffers what it is handed
\* while it connects)
SendSignalUnchecked(w, data) ==
    IF w \in {"open", "connecting"}
    THEN <<[k \in DOMAIN data \cup {"from"} |-> IF k = "from" THEN SelfId ELSE data[k]]>>
    ELSE <<>>
SendSignal(w, data) ==
    IF w = "open"
    THEN <<[k \in DOMAIN data \cup {"from"} |-> IF k = "from" THEN SelfId ELSE data[k]]>>
    ELSE <<>>

\* What a run of sendSignal calls, one after the other, writes.
RECURSIVE Written(_, _)
Written(w, data) ==
    IF data = <<>> THEN <<>> ELSE SendSignal(w, Head(data)) \o Written(w, Tail(data))

\* The payloads the handlers hand to sendSignal.
\* (onopen announces with the payload of close())
JoinDataAsLeave == [type |-> "leave", userId |-> SelfId]
JoinData == [type |-> "join", userId |-> SelfId, userName |-> "name"]
LeaveData == [type |-> "leave", userId |-> SelfId]
\* (to: this.userId written for to: userId)
OfferDataToSelf(userId) == [type |-> "offer", to |-> SelfId, sdp |-> "sdp"]
OfferData(userId) == [type |-> "offer", to |-> userId, sdp |-> "sdp"]
\* (an answer sent as a second offer)
AnswerDataAsOffer(from) == [type |-> "offer", to |-> from, sdp |-> "sdp"]
AnswerData(from) == [type |-> "answer", to |-> from, sdp |-> "sdp"]
ScreenShareStartedData == [type |-> "screen-share-started", userId |-> SelfId]
ScreenShareStoppedData == [type |-> "screen-share-stopped", userId |-> SelfId]
\* (the candidate sent without its addressee)
IceCandidateDataNoTo(userId, candidate) == [type |-> "ice-candidate", candidate |-> candidate]
IceCandidateData(userId, candidate) ==
    [type |-> "ice-candidate", to |-> userId, candidate |-> candidate]
MediaStateChangeData(isMuted, isVideoOff) ==
    [type |-> "media-state-change", userId |-> SelfId, isMuted |-> isMuted,
     isVideoOff |-> isVideoOff]

\* ------------------------------------------------------- tasks and last
NoPc == 0
\* One invocation of a handler: what it is (kind), the participant and the
\* connection it works on, the operation it awaits (at) with its argument
\* (arg), whether it constructed the connection (created) and, for a
\* fan-out, the entries its Map iterator has yet to visit (rest), the keys
\* of the Map when it began (keys0), the entries it visited and those whose
\* iteration threw, and those it passed over (skipped).  sent: what the
\* invocation wrote so far; dropped: one of its sendSignal calls found the
\* socket not open.
Run(kind, userId, pc, at, arg) ==
    [kind |-> kind, userId |-> userId, pc |-> pc, at |-> at, arg |-> arg,
     created |-> FALSE, rest |-> <<>>, keys0 |-> {}, visited |-> <<>>,
     failed |-> {}, skipped |-> {}, sent |-> <<>>, dropped |-> FALSE]

\* last, the record of one run of the event loop: the invocation as the run
\* left it (run); the participant and the connection the run began with
\* (userId, pc); the operation whose settling began it (settled, "none" for
\* a message or a call); whether the invocation returned (done); the
\* participants for whom it caught a rejection or an exception (failed);
\* whether an exception escaped it (fault); how often it called sendSignal
\* (calls) and what it wrote to the socket (out); the calls of
\* this.onRemoteStream it made (events).
Step(w, run, t, settled, done, failed, data) ==
    [run |-> [run EXCEPT !.sent = @ \o Written(w, data),
                         !.dropped = @ \/ Len(Written(w, data)) < Len(data)],
     userId |-> t.userId, pc |-> t.pc, settled |-> settled, done |-> done,
     failed |-> failed, fault |-> FALSE, calls |-> Len(data), out |-> Written(w, data),
     events |-> <<>>]

\* A callback or call that awaits nothing and works on no connection.
Plain(w, kind, arg, data) ==
    Step(w, Run(kind, "none", NoPc, "none", arg), Run(kind, "none", NoPc, "none", arg),
         "none", TRUE, {}, data)

Idle == Plain("null", "none", "none", <<>>)

RemoveAt(s, i) == SubSeq(s, 1, i - 1) \o SubSeq(s, i + 1, Len(s))

\* The operations of one connection settle in the order they were called.
Settles(i) ==
    /\ i \in DOMAIN tasks
    /\ \A j \in 1..(i - 1) : tasks[j].pc # tasks[i].pc

\* ------------------------------------------------------------- history
\* Nothing has run: no promise of initialize(), nothing written, no
\* screen-share track handed over.
NoHistory == [promise |-> "none", first |-> "none", joins |-> 0, attached |-> {}]

\* The history after the run recorded in l.  promise: the promise of the
\* last initialize() (pending, resolved by onopen, rejected by onerror);
\* first: the type of the first message written to the socket that
\* initialize() made, joins: the join messages written to it; attached:
\* the tracks a returned addScreenShareTrack handed over and no
\* removeScreenShareTrack took back since.
Record(h, l) ==
    IF l.run.kind = "initialize"
    THEN [h EXCEPT !.promise = "pending", !.first = "none", !.joins = 0]
    ELSE [promise |-> IF h.promise = "pending" /\ l.run.kind = "onopen" THEN "resolved"
                      ELSE IF h.promise = "pending" /\ l.run.kind = "onerror" THEN "rejected"
                      ELSE h.promise,
          first |-> IF h.first = "none" /\ l.out # <<>> THEN Head(l.out).type ELSE h.first,
          joins |-> h.joins + Cardinality({i \in DOMAIN l.out : l.out[i].type = "join"}),
          attached |-> IF l.run.kind = "addScreenShareTrack" /\ l.done
                       THEN h.attached \cup {l.run.arg}
                       ELSE IF l.run.kind = "removeScreenShareTrack"
                       THEN h.attached \ {l.run.arg}
                       ELSE h.attached]

\* ------------------------------------------------- MeetingLogger: its data
\* The number of calls on the logger, or on NovaState, in one behaviour.
MaxCalls == 4

\* What callers pass as config.maxStoredLogs; 0 also stands for leaving it out
\* (config.maxStoredLogs || 500 treats both alike).
MaxStoredLogsOptions == {0, 1, 2}
DefaultMaxStoredLogs == 500
\* What callers pass as config.logLevel ("undefined": left out).
LogLevelOptions == {"undefined", "info", "error"}
Configs ==
    [enableStorage : BOOLEAN, maxStoredLogs : MaxStoredLogsOptions,
     logLevel : LogLevelOptions]
\* The categories and levels log() is called with; "trace" is no key of logLevels.
Categories == {"init", "media"}
CallLevels == {"debug", "info", "error", "trace"}

\* this.logLevels
logLevels == [debug |-> 0, info |-> 1, warn |-> 2, error |-> 3]

\* this.config as the constructor builds it from its argument.
MakeConfig(config) ==
    [enableStorage |-> config.enableStorage,
     maxStoredLogs |-> IF config.maxStoredLogs = 0
                       THEN DefaultMaxStoredLogs ELSE config.maxStoredLogs,
     logLevel |-> IF config.logLevel = "undefined" THEN "debug" ELSE config.logLevel]

\* shouldLog(level): logLevels[level] >= logLevels[config.logLevel]; a key that
\* logLevels lacks reads undefined, and a comparison with undefined is false.
ShouldLog(cfg, level) ==
    /\ level \in DOMAIN logLevels
    /\ cfg.logLevel \in DOMAIN logLevels
    /\ logLevels[level] >= logLevels[cfg.logLevel]

\* array.slice(-k) for k >= 1: the last k elements, all of them if there are fewer.
Slice(s, k) == IF Len(s) <= k THEN s ELSE SubSeq(s, Len(s) - k + 1, Len(s))

\* A log entry: sessionId, category, level, and n for its timestamp (the position
\* of its log call among the calls).  JSON.stringify and JSON.parse of the array
\* keep these fields, the entries and their order.
LogEntry(lg, category, level, n) ==
    [sessionId |-> lg.sessionId, category |-> category, level |-> level, n |-> n]

NoCounts == [c \in Categories |-> 0]

\* No MeetingLogger constructed yet.
NoLogger ==
    [constructed |-> FALSE, config |-> MakeConfig([enableStorage |-> FALSE,
                                                   maxStoredLogs |-> 0,
                                                   logLevel |-> "undefined"]),
     sessionId |-> 0, logs |-> <<>>, eventCounts |-> NoCounts, errorCounts |-> NoCounts]

\* (the limit forgotten: the logs only grow)
LogBodyNoLimit(lg, category, level, n) ==
    [lg EXCEPT !.logs = Append(@, LogEntry(lg, category, level, n)),
               !.eventCounts[category] = @ + 1,
               !.errorCounts[category] = IF level = "error" THEN @ + 1 ELSE @]
\* log(category, message, data, level) past its shouldLog test: push the entry,
\* count it, cut the logs to the last maxStoredLogs.
LogBody(lg, category, level, n) ==
    LET pushed == Append(lg.logs, LogEntry(lg, category, level, n))
    IN  [lg EXCEPT !.logs = IF Len(pushed) > lg.config.maxStoredLogs
                            THEN Slice(pushed, lg.config.maxStoredLogs)
                            ELSE pushed,
                   !.eventCounts[category] = @ + 1,
                   !.errorCounts[category] = IF level = "error" THEN @ + 1 ELSE @]

\* localStorage without the 'meetingLogs' item (getItem returns null).
NoItem == [set |-> FALSE, logs |-> <<>>]

NoCall == [op |-> "none", category |-> "none", level |-> "none", returned |-> "none"]

\* ----------------------------------------------------- NovaState: its data
\* Date.now() advances by Tick milliseconds at most MaxTicks times.
Tick == 500
MaxTicks == 5

\* The strings stored as token: the empty string, a string that is no JWT, and
\* JWTs whose payload has no exp, or exp (in seconds) 0, 1, 2.
Tokens == {"", "garbage", "jwt", "jwt.exp0", "jwt.exp1", "jwt.exp2"}
UserObjects == {"ann"}
MeetingCodes == {"abc"}

\* decodeJwt(token): the payload that JSON.parse(atob(token.split('.')[1]))
\* yields, {} when that throws.
decodeJwt(token) ==
    CASE token = "jwt"      -> [sub |-> "ann"]
      [] token = "jwt.exp0" -> [sub |-> "ann", exp |-> 0]
      [] token = "jwt.exp1" -> [sub |-> "ann", exp |-> 1]
      [] token = "jwt.exp2" -> [sub |-> "ann", exp |-> 2]
      [] OTHER              -> <<>>

\* sessionStorage without the three items (getItem returns null).
EmptyStorage == [nova_jwt |-> "null", nova_user |-> "null", nova_meeting_code |-> "null"]

\* A handler of the meeting after its constructor.
\* heard: the participants a user-joined announced to it.
NewClient ==
    [ws |-> "null", peerConnections |-> <<>>, pcs |-> <<>>, tasks |-> <<>>, heard |-> {}]

Init ==
    /\ ws = "null"
    /\ peerConnections = <<>>
    /\ pcs = <<>>
    /\ tasks = <<>>
    /\ last = Idle
    /\ present = {}
    /\ hist = NoHistory
    /\ onRemoteStream = [set |-> FALSE, calls |-> <<>>]
    /\ onParticipantUpdate = [set |-> FALSE, calls |-> <<>>]
    /\ nEvents = 0
    /\ clients = [u \in Users |-> NewClient]
    /\ up = [u \in Users |-> <<>>]
    /\ down = [u \in Users |-> <<>>]
    /\ server = [room |-> {}, named |-> {}]
    /\ logger = NoLogger
    /\ localStorage = NoItem
    /\ logged = <<>>
    /\ sessionStorage = EmptyStorage
    /\ now = 0
    /\ called = NoCall

\* ------------------------------------------------------------ initialize
\* initialize(wsUrl): this.ws = new WebSocket(wsUrl).  Called on a handler
\* that holds no live socket.
Initialize ==
    /\ nEvents < MaxEvents
    /\ ws \in {"null", "closed"}
    /\ ws' = "connecting"
    /\ last' = [Plain(ws, "initialize", "none", <<>>) EXCEPT !.done = FALSE]
    /\ nEvents' = nEvents + 1
    /\ UNCHANGED <<peerConnections, pcs, tasks, present>>
    /\ hist' = Record(hist, last')
    /\ UNCHANGED <<onRemoteStream, onParticipantUpdate, meshVars, pageVars>>

\* ws.onopen: announce our presence, resolve.
WsOnOpen ==
    /\ nEvents < MaxEvents
    /\ ws = "connecting"
    /\ ws' = "open"
    /\ last' = Plain("open", "onopen", "none", <<JoinData>>)
    /\ nEvents' = nEvents + 1
    /\ UNCHANGED <<peerConnections, pcs, tasks, present>>
    /\ hist' = Record(hist, last')
    /\ UNCHANGED <<onRemoteStream, onParticipantUpdate, meshVars, pageVars>>

\* ws.onerror before the socket opened: reject.
WsOnError ==
    /\ nEvents < MaxEvents
    /\ ws = "connecting"
    /\ ws' = "closed"
    /\ last' = Plain(ws, "onerror", "none", <<>>)
    /\ nEvents' = nEvents + 1
    /\ UNCHANGED <<peerConnections, pcs, tasks, present>>
    /\ hist' = Record(hist, last')
    /\ UNCHANGED <<onRemoteStream, onParticipantUpdate, meshVars, pageVars>>

\* (onclose tears the connections down)
WsOnCloseTearsDown ==
    /\ nEvents < MaxEvents
    /\ ws = "open"
    /\ ws' = "closed"
    /\ last' = Plain(ws, "onclose", "none", <<>>)
    /\ nEvents' = nEvents + 1
    /\ pcs' = [h \in DOMAIN pcs |-> PcClose(pcs[h])]
    /\ peerConnections' = <<>>
    /\ UNCHANGED <<tasks, present>>
    /\ hist' = Record(hist, last')
    /\ UNCHANGED <<onRemoteStream, onParticipantUpdate, meshVars, pageVars>>
\* ws.onclose of an open socket: logged only.
WsOnClose ==
    /\ nEvents < MaxEvents
    /\ ws = "open"
    /\ ws' = "closed"
    /\ last' = Plain(ws, "onclose", "none", <<>>)
    /\ nEvents' = nEvents + 1
    /\ UNCHANGED <<peerConnections, pcs, tasks, present>>
    /\ hist' = Record(hist, last')
    /\ UNCHANGED <<onRemoteStream, onParticipantUpdate, meshVars, pageVars>>

\* ---------------------------------------------------- createPeerConnection
\* The heap, the Map and the running iterators after
\* createPeerConnection(userId), which returns the new connection (pc):
\* set() replaces the value of a key the Map holds and appends a new key.
CreatePeerConnection(userId) ==
    [pc |-> Len(pcs) + 1,
     pcs |-> Append(pcs, NewPc(userId)),
     peerConnections |-> MapSet(peerConnections, userId, Len(pcs) + 1),
     tasks |-> IF MapHas(peerConnections, userId) THEN tasks ELSE IterAppend(tasks, userId)]

\* ---------------------------------------------------------- handleUserJoined
\* (no test for the own id)
HandleUserJoinedNoSelfTest(userId) ==
    /\ nEvents < MaxEvents
    /\ ws = "open"
    /\ nEvents' = nEvents + 1
    /\ ws' = ws
    /\ Len(pcs) < MaxPcs
    /\ Len(tasks) < MaxTasks
    /\ LET c == CreatePeerConnection(userId)
           run == [Run("handleUserJoined", userId, c.pc, "createOffer", "none")
                      EXCEPT !.created = TRUE]
       IN /\ pcs' = [c.pcs EXCEPT ![c.pc] = AddTracks(@, LocalStreamTracks)]
          /\ peerConnections' = c.peerConnections
          /\ tasks' = Append(c.tasks, run)
          /\ last' = Step(ws, run, run, "none", FALSE, {}, <<>>)
    /\ present' = present \cup {userId}
    /\ hist' = Record(hist, last')
    /\ UNCHANGED <<onRemoteStream, onParticipantUpdate, meshVars, pageVars>>
\* From the message to the await of createOffer.
HandleUserJoined(userId) ==
    /\ nEvents < MaxEvents
    /\ ws = "open"
    /\ nEvents' = nEvents + 1
    /\ ws' = ws
    /\ IF userId = SelfId
       THEN /\ last' = Step(ws, Run("handleUserJoined", userId, NoPc, "none", "none"),
                            Run("handleUserJoined", userId, NoPc, "none", "none"),
                            "none", TRUE, {}, <<>>)
            /\ UNCHANGED <<peerConnections, pcs, tasks, present>>
       ELSE /\ Len(pcs) < MaxPcs
            /\ Len(tasks) < MaxTasks
            /\ LET c == CreatePeerConnection(userId)
                   run == [Run("handleUserJoined", userId, c.pc, "createOffer", "none")
                              EXCEPT !.created = TRUE]
               IN /\ pcs' = [c.pcs EXCEPT ![c.pc] = AddTracks(@, LocalStreamTracks)]
                  /\ peerConnections' = c.peerConnections
                  /\ tasks' = Append(c.tasks, run)
                  /\ last' = Step(ws, run, run, "none", FALSE, {}, <<>>)
            /\ present' = present \cup {userId}
    /\ hist' = Record(hist, last')
    /\ UNCHANGED <<onRemoteStream, onParticipantUpdate, meshVars, pageVars>>

\* (the catch sends the offer all the same)
HandleUserJoinedResumeStale(i) ==
    /\ Settles(i)
    /\ tasks[i].kind = "handleUserJoined"
    /\ LET t == tasks[i]
           p == pcs[t.pc]
           next == [t EXCEPT !.at = "setLocalDescription"]
       IN IF ~OpFulfilled(p, t, FALSE)
          THEN /\ tasks' = RemoveAt(tasks, i)
               /\ last' = Step(ws, t, t, t.at, TRUE, {t.userId}, <<OfferData(t.userId)>>)
               /\ pcs' = pcs
          ELSE IF t.at = "createOffer"
          THEN /\ tasks' = Append(RemoveAt(tasks, i), next)
               /\ last' = Step(ws, next, t, t.at, FALSE, {}, <<>>)
               /\ pcs' = pcs
          ELSE /\ tasks' = RemoveAt(tasks, i)
               /\ pcs' = [pcs EXCEPT ![t.pc] = OpEffect(p, t)]
               /\ last' = Step(ws, t, t, t.at, TRUE, {}, <<OfferData(t.userId)>>)
    /\ UNCHANGED <<ws, peerConnections, present, nEvents>>
    /\ hist' = Record(hist, last')
    /\ UNCHANGED <<onRemoteStream, onParticipantUpdate, meshVars, pageVars>>
\* From the settling of createOffer or setLocalDescription on.
HandleUserJoinedResume(i) ==
    /\ Settles(i)
    /\ tasks[i].kind = "handleUserJoined"
    /\ LET t == tasks[i]
           p == pcs[t.pc]
           next == [t EXCEPT !.at = "setLocalDescription"]
       IN IF ~OpFulfilled(p, t, FALSE)
          THEN /\ tasks' = RemoveAt(tasks, i)
               /\ last' = Step(ws, t, t, t.at, TRUE, {t.userId}, <<>>)
               /\ pcs' = pcs
          ELSE IF t.at = "createOffer"
          THEN /\ tasks' = Append(RemoveAt(tasks, i), next)
               /\ last' = Step(ws, next, t, t.at, FALSE, {}, <<>>)
               /\ pcs' = pcs
          ELSE /\ tasks' = RemoveAt(tasks, i)
               /\ pcs' = [pcs EXCEPT ![t.pc] = OpEffect(p, t)]
               /\ last' = Step(ws, t, t, t.at, TRUE, {}, <<OfferData(t.userId)>>)
    /\ UNCHANGED <<ws, peerConnections, present, nEvents>>
    /\ hist' = Record(hist, last')
    /\ UNCHANGED <<onRemoteStream, onParticipantUpdate, meshVars, pageVars>>

\* ------------------------------------------------------------ handleUserLeft
HandleUserLeft(userId) ==
    /\ nEvents < MaxEvents
    /\ ws = "open"
    /\ nEvents' = nEvents + 1
    /\ ws' = ws
    /\ present' = present \ {userId}
    /\ LET run == Run("handleUserLeft", userId,
                      IF MapHas(peerConnections, userId)
                      THEN MapGet(peerConnections, userId) ELSE NoPc, "none", "none")
       IN last' = Step(ws, run, run, "none", TRUE, {}, <<>>)
    /\ IF MapHas(peerConnections, userId)
       THEN /\ pcs' = [pcs EXCEPT ![MapGet(peerConnections, userId)] = PcClose(@)]
            /\ peerConnections' = MapDelete(peerConnections, userId)
            /\ tasks' = IterDelete(tasks, userId)
       ELSE UNCHANGED <<pcs, peerConnections, tasks>>
    /\ hist' = Record(hist, last')
    /\ UNCHANGED <<onRemoteStream, onParticipantUpdate, meshVars, pageVars>>

\* --------------------------------------------------------------- handleOffer
\* (the test of the Map forgotten: every offer makes a connection)
HandleOfferAlwaysCreates(from, sdp) ==
    /\ nEvents < MaxEvents
    /\ ws = "open"
    /\ Len(tasks) < MaxTasks
    /\ nEvents' = nEvents + 1
    /\ Len(pcs) < MaxPcs
    /\ LET c == CreatePeerConnection(from)
           run == [Run("handleOffer", from, c.pc, "setRemoteDescription", sdp)
                      EXCEPT !.created = MapHas(peerConnections, from) = FALSE]
       IN /\ pcs' = [c.pcs EXCEPT ![c.pc] = AddTracks(@, LocalStreamTracks)]
          /\ peerConnections' = c.peerConnections
          /\ tasks' = Append(c.tasks, run)
          /\ last' = Step(ws, run, run, "none", FALSE, {}, <<>>)
    /\ UNCHANGED <<ws, present>>
    /\ hist' = Record(hist, last')
    /\ UNCHANGED <<onRemoteStream, onParticipantUpdate, meshVars, pageVars>>
\* From the message to the await of setRemoteDescription.
HandleOffer(from, sdp) ==
    /\ nEvents < MaxEvents
    /\ ws = "open"
    /\ Len(tasks) < MaxTasks
    /\ nEvents' = nEvents + 1
    /\ IF MapHas(peerConnections, from)
       THEN LET run == Run("handleOffer", from, MapGet(peerConnections, from),
                           "setRemoteDescription", sdp)
            IN /\ tasks' = Append(tasks, run)
               /\ last' = Step(ws, run, run, "none", FALSE, {}, <<>>)
               /\ UNCHANGED <<pcs, peerConnections>>
       ELSE /\ Len(pcs) < MaxPcs
            /\ LET c == CreatePeerConnection(from)
                   run == [Run("handleOffer", from, c.pc, "setRemoteDescription", sdp)
                              EXCEPT !.created = TRUE]
               IN /\ pcs' = [c.pcs EXCEPT ![c.pc] = AddTracks(@, LocalStreamTracks)]
                  /\ peerConnections' = c.peerConnections
                  /\ tasks' = Append(c.tasks, run)
                  /\ last' = Step(ws, run, run, "none", FALSE, {}, <<>>)
    /\ UNCHANGED <<ws, present>>
    /\ hist' = Record(hist, last')
    /\ UNCHANGED <<onRemoteStream, onParticipantUpdate, meshVars, pageVars>>

\* From the settling of setRemoteDescription, createAnswer or
\* setLocalDescription on.
HandleOfferResume(i) ==
    /\ Settles(i)
    /\ tasks[i].kind = "handleOffer"
    /\ \E rollback \in RollbackChoices :
        LET t == tasks[i]
            p == pcs[t.pc]
            next == [t EXCEPT !.at = IF t.at = "setRemoteDescription"
                                     THEN "createAnswer" ELSE "setLocalDescription"]
        IN IF ~OpFulfilled(p, t, rollback)
           THEN /\ tasks' = RemoveAt(tasks, i)
                /\ last' = Step(ws, t, t, t.at, TRUE, {t.userId}, <<>>)
                /\ pcs' = pcs
           ELSE IF t.at # "setLocalDescription"
           THEN /\ tasks' = Append(RemoveAt(tasks, i), next)
                /\ last' = Step(ws, next, t, t.at, FALSE, {}, <<>>)
                /\ pcs' = [pcs EXCEPT ![t.pc] = OpEffect(p, t)]
           ELSE /\ tasks' = RemoveAt(tasks, i)
                /\ pcs' = [pcs EXCEPT ![t.pc] = OpEffect(p, t)]
                /\ last' = Step(ws, t, t, t.at, TRUE, {}, <<AnswerData(t.userId)>>)
    /\ UNCHANGED <<ws, peerConnections, present, nEvents>>
    /\ hist' = Record(hist, last')
    /\ UNCHANGED <<onRemoteStream, onParticipantUpdate, meshVars, pageVars>>

\* -------------------------------------------------------------- handleAnswer
\* (an answer of an unknown sender makes a connection, as an offer does)
HandleAnswerCreates(from, sdp) ==
    /\ nEvents < MaxEvents
    /\ ws = "open"
    /\ nEvents' = nEvents + 1
    /\ Len(tasks) < MaxTasks
    /\ IF MapHas(peerConnections, from)
       THEN /\ LET run == Run("handleAnswer", from, MapGet(peerConnections, from),
                              "setRemoteDescription", sdp)
               IN /\ tasks' = Append(tasks, run)
                  /\ last' = Step(ws, run, run, "none", FALSE, {}, <<>>)
            /\ UNCHANGED <<peerConnections, pcs>>
       ELSE /\ Len(pcs) < MaxPcs
            /\ LET c == CreatePeerConnection(from)
                   run == Run("handleAnswer", from, c.pc, "setRemoteDescription", sdp)
               IN /\ pcs' = c.pcs
                  /\ peerConnections' = c.peerConnections
                  /\ tasks' = Append(c.tasks, run)
                  /\ last' = Step(ws, run, run, "none", FALSE, {}, <<>>)
    /\ UNCHANGED <<ws, present>>
    /\ hist' = Record(hist, last')
    /\ UNCHANGED <<onRemoteStream, onParticipantUpdate, meshVars, pageVars>>
HandleAnswer(from, sdp) ==
    /\ nEvents < MaxEvents
    /\ ws = "open"
    /\ nEvents' = nEvents + 1
    /\ IF MapHas(peerConnections, from)
       THEN /\ Len(tasks) < MaxTasks
            /\ LET run == Run("handleAnswer", from, MapGet(peerConnections, from),
                              "setRemoteDescription", sdp)
               IN /\ tasks' = Append(tasks, run)
                  /\ last' = Step(ws, run, run, "none", FALSE, {}, <<>>)
       ELSE /\ tasks' = tasks
            /\ last' = Step(ws, Run("handleAnswer", from, NoPc, "none", sdp),
                            Run("handleAnswer", from, NoPc, "none", sdp),
                            "none", TRUE, {}, <<>>)
    /\ UNCHANGED <<ws, peerConnections, pcs, present>>
    /\ hist' = Record(hist, last')
    /\ UNCHANGED <<onRemoteStream, onParticipantUpdate, meshVars, pageVars>>

\* (the catch closes the connection and drops its entry)
HandleAnswerResumeTearsDown(i) ==
    /\ Settles(i)
    /\ tasks[i].kind = "handleAnswer"
    /\ LET t == tasks[i]
           p == pcs[t.pc]
       IN IF ~OpFulfilled(p, t, FALSE)
          THEN /\ last' = Step(ws, t, t, t.at, TRUE, {t.userId}, <<>>)
               /\ pcs' = [pcs EXCEPT ![t.pc] = PcClose(@)]
               /\ peerConnections' = MapDelete(peerConnections, t.userId)
          ELSE /\ last' = Step(ws, t, t, t.at, TRUE, {}, <<>>)
               /\ pcs' = [pcs EXCEPT ![t.pc] = OpEffect(p, t)]
               /\ peerConnections' = peerConnections
    /\ tasks' = RemoveAt(tasks, i)
    /\ UNCHANGED <<ws, present, nEvents>>
    /\ hist' = Record(hist, last')
    /\ UNCHANGED <<onRemoteStream, onParticipantUpdate, meshVars, pageVars>>
HandleAnswerResume(i) ==
    /\ Settles(i)
    /\ tasks[i].kind = "handleAnswer"
    /\ LET t == tasks[i]
           p == pcs[t.pc]
       IN IF ~OpFulfilled(p, t, FALSE)
          THEN /\ last' = Step(ws, t, t, t.at, TRUE, {t.userId}, <<>>)
               /\ pcs' = pcs
          ELSE /\ last' = Step(ws, t, t, t.at, TRUE, {}, <<>>)
               /\ pcs' = [pcs EXCEPT ![t.pc] = OpEffect(p, t)]
    /\ tasks' = RemoveAt(tasks, i)
    /\ UNCHANGED <<ws, peerConnections, present, nEvents>>
    /\ hist' = Record(hist, last')
    /\ UNCHANGED <<onRemoteStream, onParticipantUpdate, meshVars, pageVars>>

\* -------------------------------------------------------- handleIceCandidate
\* From the message to the await of addIceCandidate.
HandleIceCandidate(from, candidate) ==
    /\ nEvents < MaxEvents
    /\ ws = "open"
    /\ nEvents' = nEvents + 1
    /\ IF MapHas(peerConnections, from) /\ candidate # "null"
       THEN /\ Len(tasks) < MaxTasks
            /\ LET pc == MapGet(peerConnections, from)
                   run == Run("handleIceCandidate", from, pc, "addIceCandidate", candidate)
               IN /\ tasks' = Append(tasks, run)
                  /\ last' = Step(ws, run, run, "none", FALSE, {}, <<>>)
                  /\ pcs' = IF ValidCandidate(candidate)
                            THEN [pcs EXCEPT ![pc].received = Append(@, candidate)]
                            ELSE pcs
       ELSE /\ tasks' = tasks
            /\ pcs' = pcs
            /\ last' = Step(ws, Run("handleIceCandidate", from, NoPc, "none", candidate),
                            Run("handleIceCandidate", from, NoPc, "none", candidate),
                            "none", TRUE, {}, <<>>)
    /\ UNCHANGED <<ws, peerConnections, present>>
    /\ hist' = Record(hist, last')
    /\ UNCHANGED <<onRemoteStream, onParticipantUpdate, meshVars, pageVars>>

HandleIceCandidateResume(i) ==
    /\ Settles(i)
    /\ tasks[i].kind = "handleIceCandidate"
    /\ LET t == tasks[i]
           p == pcs[t.pc]
       IN IF ~OpFulfilled(p, t, FALSE)
          THEN /\ last' = Step(ws, t, t, t.at, TRUE, {t.userId}, <<>>)
               /\ pcs' = pcs
          ELSE /\ last' = Step(ws, t, t, t.at, TRUE, {}, <<>>)
               /\ pcs' = [pcs EXCEPT ![t.pc] = OpEffect(p, t)]
    /\ tasks' = RemoveAt(tasks, i)
    /\ UNCHANGED <<ws, peerConnections, present, nEvents>>
    /\ hist' = Record(hist, last')
    /\ UNCHANGED <<onRemoteStream, onParticipantUpdate, meshVars, pageVars>>

\* ------------------------------------------------------- addScreenShareTrack
\* The loop of addScreenShareTrack from the head of its iterator (rest) to
\* its next await or its end, over the heap P: an entry whose addTrack
\* throws is caught and the loop goes on with the next entry.
RECURSIVE AddLoop(_, _, _)
\* (the try around the whole loop: the first throw or rejection ends it)
AddLoopEndsOnFailure(P, run, track) ==
    IF run.rest = <<>> \/ run.failed # {}
    THEN [pcs |-> P, run |-> [run EXCEPT !.userId = "none", !.pc = NoPc, !.at = "none"],
          suspended |-> FALSE]
    ELSE LET userId == Head(run.rest)
             pc == MapGet(peerConnections, userId)
             visit == [run EXCEPT !.rest = Tail(@), !.visited = Append(@, userId),
                                  !.userId = userId, !.pc = pc, !.at = "createOffer"]
         IN IF AddTrackThrows(P[pc], track)
            THEN AddLoop(P, [visit EXCEPT !.failed = @ \cup {userId}], track)
            ELSE [pcs |-> [P EXCEPT ![pc] = AddTrack(@, track)], run |-> visit,
                  suspended |-> TRUE]
\* (the loop returns after its first entry)
AddLoopFirstEntryOnly(P, run, track) ==
    IF run.rest = <<>> \/ run.visited # <<>>
    THEN [pcs |-> P, run |-> [run EXCEPT !.userId = "none", !.pc = NoPc, !.at = "none"],
          suspended |-> FALSE]
    ELSE LET userId == Head(run.rest)
             pc == MapGet(peerConnections, userId)
             visit == [run EXCEPT !.rest = Tail(@), !.visited = Append(@, userId),
                                  !.userId = userId, !.pc = pc, !.at = "createOffer"]
         IN IF AddTrackThrows(P[pc], track)
            THEN AddLoop(P, [visit EXCEPT !.failed = @ \cup {userId}], track)
            ELSE [pcs |-> [P EXCEPT ![pc] = AddTrack(@, track)], run |-> visit,
                  suspended |-> TRUE]
AddLoop(P, run, track) ==
    IF run.rest = <<>>
    THEN [pcs |-> P, run |-> [run EXCEPT !.userId = "none", !.pc = NoPc, !.at = "none"],
          suspended |-> FALSE]
    ELSE LET userId == Head(run.rest)
             pc == MapGet(peerConnections, userId)
             visit == [run EXCEPT !.rest = Tail(@), !.visited = Append(@, userId),
                                  !.userId = userId, !.pc = pc, !.at = "createOffer"]
         IN IF AddTrackThrows(P[pc], track)
            THEN AddLoop(P, [visit EXCEPT !.failed = @ \cup {userId}], track)
            ELSE [pcs |-> [P EXCEPT ![pc] = AddTrack(@, track)], run |-> visit,
                  suspended |-> TRUE]

\* From the call to the first await, or to the return when no entry awaits.
AddScreenShareTrack(track) ==
    /\ nEvents < MaxEvents
    /\ Len(tasks) < MaxTasks
    /\ nEvents' = nEvents + 1
    /\ LET run == [Run("addScreenShareTrack", "none", NoPc, "none", track)
                      EXCEPT !.rest = MapOrder(peerConnections),
                             !.keys0 = MapKeys(peerConnections)]
           r == AddLoop(pcs, run, track)
       IN /\ pcs' = r.pcs
          /\ last' = Step(ws, r.run, r.run, "none", ~r.suspended, r.run.failed,
                          IF r.suspended THEN <<>> ELSE <<ScreenShareStartedData>>)
          /\ tasks' = IF r.suspended THEN Append(tasks, last'.run) ELSE tasks
    /\ UNCHANGED <<ws, peerConnections, present>>
    /\ hist' = Record(hist, last')
    /\ UNCHANGED <<onRemoteStream, onParticipantUpdate, meshVars, pageVars>>

\* (after a failed iteration the fan-out returns without its notification)
AddScreenShareTrackResumeQuietOnFailure(i) ==
    /\ Settles(i)
    /\ tasks[i].kind = "addScreenShareTrack"
    /\ LET t == tasks[i]
           p == pcs[t.pc]
           others == RemoveAt(tasks, i)
           ok == OpFulfilled(p, t, FALSE)
           next == [t EXCEPT !.at = "setLocalDescription"]
       IN IF ok /\ t.at = "createOffer"
          THEN /\ tasks' = Append(others, next)
               /\ last' = Step(ws, next, t, t.at, FALSE, {}, <<>>)
               /\ pcs' = pcs
          ELSE LET r == AddLoop(IF ok THEN [pcs EXCEPT ![t.pc] = OpEffect(p, t)] ELSE pcs,
                                IF ok THEN t ELSE [t EXCEPT !.failed = @ \cup {t.userId}],
                                t.arg)
               IN /\ pcs' = r.pcs
                  /\ last' = Step(ws, r.run, t, t.at, ~r.suspended,
                                  r.run.failed \ t.failed,
                                  (IF ok THEN <<OfferData(t.userId)>> ELSE <<>>)
                                  \o (IF r.suspended \/ r.run.failed # {} THEN <<>>
                                      ELSE <<ScreenShareStartedData>>))
                  /\ tasks' = IF r.suspended THEN Append(others, last'.run) ELSE others
    /\ UNCHANGED <<ws, peerConnections, present, nEvents>>
    /\ hist' = Record(hist, last')
    /\ UNCHANGED <<onRemoteStream, onParticipantUpdate, meshVars, pageVars>>
\* From the settling of createOffer or setLocalDescription of one iteration
\* to the await of the next iteration, or to the return.
AddScreenShareTrackResume(i) ==
    /\ Settles(i)
    /\ tasks[i].kind = "addScreenShareTrack"
    /\ LET t == tasks[i]
           p == pcs[t.pc]
           others == RemoveAt(tasks, i)
           ok == OpFulfilled(p, t, FALSE)
           next == [t EXCEPT !.at = "setLocalDescription"]
       IN IF ok /\ t.at = "createOffer"
          THEN /\ tasks' = Append(others, next)
               /\ last' = Step(ws, next, t, t.at, FALSE, {}, <<>>)
               /\ pcs' = pcs
          ELSE LET r == AddLoop(IF ok THEN [pcs EXCEPT ![t.pc] = OpEffect(p, t)] ELSE pcs,
                                IF ok THEN t ELSE [t EXCEPT !.failed = @ \cup {t.userId}],
                                t.arg)
               IN /\ pcs' = r.pcs
                  /\ last' = Step(ws, r.run, t, t.at, ~r.suspended,
                                  r.run.failed \ t.failed,
                                  (IF ok THEN <<OfferData(t.userId)>> ELSE <<>>)
                                  \o (IF r.suspended THEN <<>>
                                      ELSE <<ScreenShareStartedData>>))
                  /\ tasks' = IF r.suspended THEN Append(others, last'.run) ELSE others
    /\ UNCHANGED <<ws, peerConnections, present, nEvents>>
    /\ hist' = Record(hist, last')
    /\ UNCHANGED <<onRemoteStream, onParticipantUpdate, meshVars, pageVars>>

\* ---------------------------------------------------- removeScreenShareTrack
\* The loop of removeScreenShareTrack from the head of its iterator to its
\* next await or its end: an entry whose connection has no sender for the
\* track is passed over.
RECURSIVE RemoveLoop(_, _, _)
\* (no test for the sender: every entry is renegotiated)
RemoveLoopEveryEntry(P, run, track) ==
    IF run.rest = <<>>
    THEN [pcs |-> P, run |-> [run EXCEPT !.userId = "none", !.pc = NoPc, !.at = "none"],
          suspended |-> FALSE]
    ELSE LET userId == Head(run.rest)
             pc == MapGet(peerConnections, userId)
             visit == [run EXCEPT !.rest = Tail(@), !.visited = Append(@, userId),
                                  !.userId = userId, !.pc = pc, !.at = "createOffer"]
         IN [pcs |-> [P EXCEPT ![pc].senders = @ \ {track}], run |-> visit,
             suspended |-> TRUE]
RemoveLoop(P, run, track) ==
    IF run.rest = <<>>
    THEN [pcs |-> P, run |-> [run EXCEPT !.userId = "none", !.pc = NoPc, !.at = "none"],
          suspended |-> FALSE]
    ELSE LET userId == Head(run.rest)
             pc == MapGet(peerConnections, userId)
             visit == [run EXCEPT !.rest = Tail(@), !.visited = Append(@, userId),
                                  !.userId = userId, !.pc = pc, !.at = "createOffer"]
         IN IF track \notin P[pc].senders
            THEN RemoveLoop(P, [visit EXCEPT !.skipped = @ \cup {userId}], track)
            ELSE [pcs |-> [P EXCEPT ![pc].senders = @ \ {track}], run |-> visit,
                  suspended |-> TRUE]

\* From the call to the first await, or to the return when no entry awaits.
RemoveScreenShareTrack(track) ==
    /\ nEvents < MaxEvents
    /\ Len(tasks) < MaxTasks
    /\ nEvents' = nEvents + 1
    /\ LET run == [Run("removeScreenShareTrack", "none", NoPc, "none", track)
                      EXCEPT !.rest = MapOrder(peerConnections),
                             !.keys0 = MapKeys(peerConnections)]
           r == RemoveLoop(pcs, run, track)
       IN /\ pcs' = r.pcs
          /\ last' = Step(ws, r.run, r.run, "none", ~r.suspended, {},
                          IF r.suspended THEN <<>> ELSE <<ScreenShareStoppedData>>)
          /\ tasks' = IF r.suspended THEN Append(tasks, last'.run) ELSE tasks
    /\ UNCHANGED <<ws, peerConnections, present>>
    /\ hist' = Record(hist, last')
    /\ UNCHANGED <<onRemoteStream, onParticipantUpdate, meshVars, pageVars>>

\* From the settling of createOffer or setLocalDescription of one iteration
\* to the await of the next iteration, or to the return.
RemoveScreenShareTrackResume(i) ==
    /\ Settles(i)
    /\ tasks[i].kind = "removeScreenShareTrack"
    /\ LET t == tasks[i]
           p == pcs[t.pc]
           others == RemoveAt(tasks, i)
           ok == OpFulfilled(p, t, FALSE)
           next == [t EXCEPT !.at = "setLocalDescription"]
       IN IF ok /\ t.at = "createOffer"
          THEN /\ tasks' = Append(others, next)
               /\ last' = Step(ws, next, t, t.at, FALSE, {}, <<>>)
               /\ pcs' = pcs
          ELSE LET r == RemoveLoop(IF ok THEN [pcs EXCEPT ![t.pc] = OpEffect(p, t)] ELSE pcs,
                                   IF ok THEN t ELSE [t EXCEPT !.failed = @ \cup {t.userId}],
                                   t.arg)
               IN /\ pcs' = r.pcs
                  /\ last' = Step(ws, r.run, t, t.at, ~r.suspended,
                                  r.run.failed \ t.failed,
                                  (IF ok THEN <<OfferData(t.userId)>> ELSE <<>>)
                                  \o (IF r.suspended THEN <<>>
                                      ELSE <<ScreenShareStoppedData>>))
                  /\ tasks' = IF r.suspended THEN Append(others, last'.run) ELSE others
    /\ UNCHANGED <<ws, peerConnections, present, nEvents>>
    /\ hist' = Record(hist, last')
    /\ UNCHANGED <<onRemoteStream, onParticipantUpdate, meshVars, pageVars>>

\* ------------------------------------------------------------ onicecandidate
\* pc.onicecandidate of connection h: the platform gathers candidates once a
\* local description is set and fires no event on a closed connection.
\* (no test of event.candidate: the end of the candidates is forwarded too)
OnIceCandidateForwardsNull(h, candidate) ==
    /\ nEvents < MaxEvents
    /\ h \in DOMAIN pcs
    /\ pcs[h].localDescription
    /\ pcs[h].signalingState # "closed"
    /\ nEvents' = nEvents + 1
    /\ LET run == Run("onicecandidate", pcs[h].userId, h, "none", candidate)
       IN last' = Step(ws, run, run, "none", TRUE, {},
                       <<IceCandidateData(pcs[h].userId, candidate)>>)
    /\ UNCHANGED <<ws, peerConnections, pcs, tasks, present>>
    /\ hist' = Record(hist, last')
    /\ UNCHANGED <<onRemoteStream, onParticipantUpdate, meshVars, pageVars>>
OnIceCandidate(h, candidate) ==
    /\ nEvents < MaxEvents
    /\ h \in DOMAIN pcs
    /\ pcs[h].localDescription
    /\ pcs[h].signalingState # "closed"
    /\ nEvents' = nEvents + 1
    /\ LET run == Run("onicecandidate", pcs[h].userId, h, "none", candidate)
       IN last' = Step(ws, run, run, "none", TRUE, {},
                       IF candidate # "null"
                       THEN <<IceCandidateData(pcs[h].userId, candidate)>> ELSE <<>>)
    /\ UNCHANGED <<ws, peerConnections, pcs, tasks, present>>
    /\ hist' = Record(hist, last')
    /\ UNCHANGED <<onRemoteStream, onParticipantUpdate, meshVars, pageVars>>

\* ------------------------------------------------- onconnectionstatechange
\* pc.onconnectionstatechange of connection h, pc.connectionState being
\* state: the callback logs the state.  A closed connection fires no event.
OnConnectionStateChange(h, state) ==
    /\ nEvents < MaxEvents
    /\ h \in DOMAIN pcs
    /\ pcs[h].signalingState # "closed"
    /\ nEvents' = nEvents + 1
    /\ LET run == Run("onconnectionstatechange", pcs[h].userId, h, "none", state)
       IN last' = Step(ws, run, run, "none", TRUE, {}, <<>>)
    /\ UNCHANGED <<ws, peerConnections, pcs, tasks, present>>
    /\ hist' = Record(hist, last')
    /\ UNCHANGED <<onRemoteStream, onParticipantUpdate, meshVars, pageVars>>

\* ------------------------------------------------------------------ ontrack
\* The application assigns its callback to handler.onRemoteStream.
SetOnRemoteStream ==
    /\ onRemoteStream' = [onRemoteStream EXCEPT !.set = TRUE]
    /\ last' = Plain(ws, "setOnRemoteStream", "none", <<>>)
    /\ UNCHANGED <<ws, peerConnections, pcs, tasks, present, nEvents>>
    /\ hist' = Record(hist, last')
    /\ UNCHANGED <<onParticipantUpdate, meshVars, pageVars>>

\* event.streams[0]: undefined when the event has no stream.
FirstStream(streams) == IF streams = <<>> THEN "undefined" ELSE streams[1]

\* (the callback is called once for every stream of the event)
OnTrackPerStream(h, track) ==
    /\ nEvents < MaxEvents
    /\ h \in DOMAIN pcs
    /\ pcs[h].remoteDescription
    /\ pcs[h].signalingState # "closed"
    /\ nEvents' = nEvents + 1
    /\ LET run == Run("ontrack", pcs[h].userId, h, "none", track)
           calls == IF onRemoteStream.set
                    THEN [k \in DOMAIN EventStreams(track) |->
                             [userId |-> pcs[h].userId, stream |-> EventStreams(track)[k],
                              track |-> track]]
                    ELSE <<>>
       IN /\ last' = [Step(ws, run, run, "none", TRUE, {}, <<>>) EXCEPT !.events = calls]
          /\ onRemoteStream' = [onRemoteStream EXCEPT !.calls = @ \o calls]
    /\ UNCHANGED <<ws, peerConnections, pcs, tasks, present>>
    /\ hist' = Record(hist, last')
    /\ UNCHANGED <<onParticipantUpdate, meshVars, pageVars>>
\* pc.ontrack of connection h: the platform fires track events while it
\* applies a remote description and fires none on a closed connection.
OnTrack(h, track) ==
    /\ nEvents < MaxEvents
    /\ h \in DOMAIN pcs
    /\ pcs[h].remoteDescription
    /\ pcs[h].signalingState # "closed"
    /\ nEvents' = nEvents + 1
    /\ LET run == Run("ontrack", pcs[h].userId, h, "none", track)
           calls == IF onRemoteStream.set
                    THEN <<[userId |-> pcs[h].userId,
                            stream |-> FirstStream(EventStreams(track)),
                            track |-> track]>>
                    ELSE <<>>
       IN /\ last' = [Step(ws, run, run, "none", TRUE, {}, <<>>) EXCEPT !.events = calls]
          /\ onRemoteStream' = [onRemoteStream EXCEPT !.calls = @ \o calls]
    /\ UNCHANGED <<ws, peerConnections, pcs, tasks, present>>
    /\ hist' = Record(hist, last')
    /\ UNCHANGED <<onParticipantUpdate, meshVars, pageVars>>

\* ---------------------------------------------------- handleSignalingMessage
\* The application assigns its callback to handler.onParticipantUpdate.
SetOnParticipantUpdate ==
    /\ onParticipantUpdate' = [onParticipantUpdate EXCEPT !.set = TRUE]
    /\ last' = Plain(ws, "setOnParticipantUpdate", "none", <<>>)
    /\ UNCHANGED <<ws, peerConnections, pcs, tasks, present, nEvents>>
    /\ hist' = Record(hist, last')
    /\ UNCHANGED <<onRemoteStream, meshVars, pageVars>>

\* (a notification tears every connection down)
HandleSignalingMessageTearsDown(type) ==
    /\ nEvents < MaxEvents
    /\ ws = "open"
    /\ nEvents' = nEvents + 1
    /\ last' = Plain(ws, "handleSignalingMessage", type, <<>>)
    /\ pcs' = [h \in DOMAIN pcs |-> PcClose(pcs[h])]
    /\ UNCHANGED <<ws, peerConnections, tasks, present>>
    /\ hist' = Record(hist, last')
    /\ UNCHANGED <<onRemoteStream, onParticipantUpdate, meshVars, pageVars>>
\* An inbound message of a type for which the switch has no case: the
\* handler logs the type and returns.
HandleSignalingMessage(type) ==
    /\ nEvents < MaxEvents
    /\ ws = "open"
    /\ nEvents' = nEvents + 1
    /\ last' = Plain(ws, "handleSignalingMessage", type, <<>>)
    /\ UNCHANGED <<ws, peerConnections, pcs, tasks, present>>
    /\ hist' = Record(hist, last')
    /\ UNCHANGED <<onRemoteStream, onParticipantUpdate, meshVars, pageVars>>

\* (a message without a case throws and the socket is given up)
WsOnMessageFaults(message) ==
    LET type == Field(message, "type")
    IN CASE type = "user-joined" -> HandleUserJoined(message.userId)
         [] type = "user-left" -> HandleUserLeft(message.userId)
         [] type = "offer" -> HandleOffer(message.from, message.sdp)
         [] type = "answer" -> HandleAnswer(message.from, message.sdp)
         [] type = "ice-candidate" -> HandleIceCandidate(message.from, message.candidate)
         [] OTHER ->
              /\ nEvents < MaxEvents
              /\ ws = "open"
              /\ nEvents' = nEvents + 1
              /\ last' = [Plain(ws, "handleSignalingMessage", type, <<>>)
                              EXCEPT !.fault = TRUE]
              /\ ws' = "closed"
              /\ UNCHANGED <<peerConnections, pcs, tasks, present>>
              /\ hist' = Record(hist, last')
              /\ UNCHANGED <<onRemoteStream, onParticipantUpdate, meshVars, pageVars>>
\* ws.onmessage with the parsed message: the switch of
\* handleSignalingMessage over message.type.
WsOnMessage(message) ==
    LET type == Field(message, "type")
    IN CASE type = "user-joined" -> HandleUserJoined(message.userId)
         [] type = "user-left" -> HandleUserLeft(message.userId)
         [] type = "offer" -> HandleOffer(message.from, message.sdp)
         [] type = "answer" -> HandleAnswer(message.from, message.sdp)
         [] type = "ice-candidate" -> HandleIceCandidate(message.from, message.candidate)
         [] OTHER -> HandleSignalingMessage(type)

\* ---------------------------------------------------- notifyMediaStateChange
NotifyMediaStateChange(isMuted, isVideoOff) ==
    /\ nEvents < MaxEvents
    /\ nEvents' = nEvents + 1
    /\ last' = Plain(ws, "notifyMediaStateChange", "none",
                     <<MediaStateChangeData(isMuted, isVideoOff)>>)
    /\ UNCHANGED <<ws, peerConnections, pcs, tasks, present>>
    /\ hist' = Record(hist, last')
    /\ UNCHANGED <<onRemoteStream, onParticipantUpdate, meshVars, pageVars>>

\* sendSignal(data) called by the application itself; arg: the sender the
\* payload names.
CallSendSignal(data) ==
    /\ nEvents < MaxEvents
    /\ nEvents' = nEvents + 1
    /\ last' = Plain(ws, "sendSignal",
                     IF "from" \in DOMAIN data THEN data.from ELSE "none", <<data>>)
    /\ UNCHANGED <<ws, peerConnections, pcs, tasks, present>>
    /\ hist' = Record(hist, last')
    /\ UNCHANGED <<onRemoteStream, onParticipantUpdate, meshVars, pageVars>>

\* --------------------------------------------------------------------- close
\* Calling a method of this.ws throws a TypeError when this.ws is null.
WsCallThrows(w) == w = "null"

\* The last block of close(): what it hands to sendSignal (data), whether
\* ws.close() threw (fault) and this.ws afterwards.
\* (the test of this.ws forgotten)
CloseSocketUnguarded(w) ==
    [data |-> <<LeaveData>>, to |-> w, fault |-> WsCallThrows(w), ws |-> "null"]
\* (ws.close() called before the leave is sent)
CloseSocketBeforeLeave(w) ==
    IF w # "null"
    THEN [data |-> <<LeaveData>>, to |-> "closed", fault |-> WsCallThrows(w), ws |-> "null"]
    ELSE [data |-> <<>>, to |-> w, fault |-> FALSE, ws |-> w]
CloseSocket(w) ==
    IF w # "null"
    THEN [data |-> <<LeaveData>>, to |-> w, fault |-> WsCallThrows(w), ws |-> "null"]
    ELSE [data |-> <<>>, to |-> w, fault |-> FALSE, ws |-> w]

\* close(): close every connection of the Map, clear the Map, leave.
Close ==
    /\ nEvents < MaxEvents
    /\ nEvents' = nEvents + 1
    /\ pcs' = [h \in DOMAIN pcs |->
                  IF h \in {MapGet(peerConnections, k) : k \in MapKeys(peerConnections)}
                  THEN PcClose(pcs[h]) ELSE pcs[h]]
    /\ peerConnections' = <<>>
    /\ tasks' = IterClear(tasks)
    /\ LET c == CloseSocket(ws)
       IN /\ last' = [Plain(c.to, "close", ws, c.data) EXCEPT !.fault = c.fault]
          /\ ws' = c.ws
    /\ present' = present
    /\ hist' = Record(hist, last')
    /\ UNCHANGED <<onRemoteStream, onParticipantUpdate, meshVars, pageVars>>

\* ------------------------------------------------------------ the meeting
\* The same handler, one per participant, written on the handler's record c
\* with its own id self, and the relay of QUICKSTART.md.

\* sendSignal of the handler of self: the payload stamped with its id.
Stamp(self, data) ==
    [k \in DOMAIN data \cup {"from"} |-> IF k = "from" THEN self ELSE data[k]]

\* createPeerConnection(userId) followed by the addTrack of the local
\* tracks, and the handler run that made the call, suspended at its first
\* operation.
Created(c, userId, run) ==
    [c EXCEPT !.pcs = Append(@, AddTracks(NewPc(userId), LocalStreamTracks)),
              !.peerConnections = MapSet(@, userId, Len(c.pcs) + 1),
              !.tasks = Append(@, [run EXCEPT !.created = TRUE, !.pc = Len(c.pcs) + 1])]

\* (handleUserJoined returns before createPeerConnection)
DispatchedIgnoresJoined(self, c, msg) ==
    CASE msg.type = "offer" ->
            IF MapHas(c.peerConnections, msg.from)
            THEN [c EXCEPT !.tasks =
                     Append(@, Run("handleOffer", msg.from,
                                   MapGet(c.peerConnections, msg.from),
                                   "setRemoteDescription", msg.sdp))]
            ELSE Created(c, msg.from,
                         Run("handleOffer", msg.from, NoPc, "setRemoteDescription", msg.sdp))
      [] msg.type = "answer" ->
            IF MapHas(c.peerConnections, msg.from)
            THEN [c EXCEPT !.tasks =
                     Append(@, Run("handleAnswer", msg.from,
                                   MapGet(c.peerConnections, msg.from),
                                   "setRemoteDescription", msg.sdp))]
            ELSE c
      [] OTHER -> c
\* handleSignalingMessage(msg) of the handler c of self, up to the first
\* await of the handler it dispatches to.
Dispatched(self, c, msg) ==
    CASE msg.type = "user-joined" ->
            IF msg.userId = self
            THEN c
            ELSE Created([c EXCEPT !.heard = @ \cup {msg.userId}], msg.userId,
                         Run("handleUserJoined", msg.userId, NoPc, "createOffer", "none"))
      [] msg.type = "offer" ->
            IF MapHas(c.peerConnections, msg.from)
            THEN [c EXCEPT !.tasks =
                     Append(@, Run("handleOffer", msg.from,
                                   MapGet(c.peerConnections, msg.from),
                                   "setRemoteDescription", msg.sdp))]
            ELSE Created(c, msg.from,
                         Run("handleOffer", msg.from, NoPc, "setRemoteDescription", msg.sdp))
      [] msg.type = "answer" ->
            IF MapHas(c.peerConnections, msg.from)
            THEN [c EXCEPT !.tasks =
                     Append(@, Run("handleAnswer", msg.from,
                                   MapGet(c.peerConnections, msg.from),
                                   "setRemoteDescription", msg.sdp))]
            ELSE c
      [] OTHER -> c

\* The operation a handler awaits after the one it awaits now ("none": the
\* handler goes on to its sendSignal, or returns).
NextOp(t) ==
    CASE t.kind \in Offerers /\ t.at = "createOffer" -> "setLocalDescription"
      [] t.kind = "handleOffer" /\ t.at = "setRemoteDescription" -> "createAnswer"
      [] t.kind = "handleOffer" /\ t.at = "createAnswer" -> "setLocalDescription"
      [] OTHER -> "none"

\* What a handler hands to sendSignal after its last operation.
\* (handleOffer keeps its answer to itself)
ReplyNoAnswer(t) ==
    CASE t.kind = "handleUserJoined" -> <<OfferData(t.userId)>>
      [] t.kind = "addScreenShareTrack" ->
            <<OfferData(t.userId), ScreenShareStartedData>>
      [] OTHER -> <<>>
Reply(t) ==
    CASE t.kind = "handleUserJoined" -> <<OfferData(t.userId)>>
      [] t.kind = "handleOffer" -> <<AnswerData(t.userId)>>
      [] t.kind = "addScreenShareTrack" ->
            <<OfferData(t.userId), ScreenShareStartedData>>
      [] OTHER -> <<>>

\* What a handler hands to sendSignal after its catch: the fan-out of a
\* meeting of two has no further entry and goes on to its notification.
Caught(t) ==
    CASE t.kind = "addScreenShareTrack" -> <<ScreenShareStartedData>>
      [] OTHER -> <<>>

\* The continuation of the suspended run i of handler c: the handler after
\* it (client) and what it wrote to its socket (sent).
Resumed(self, c, i, rollback) ==
    LET t == c.tasks[i]
        p == c.pcs[t.pc]
        others == RemoveAt(c.tasks, i)
    IN IF ~OpFulfilled(p, t, rollback)
       THEN [client |-> [c EXCEPT !.tasks = others],
             sent |-> IF c.ws = "open"
                      THEN [j \in DOMAIN Caught(t) |-> Stamp(self, Caught(t)[j])]
                      ELSE <<>>]
       ELSE IF NextOp(t) # "none"
       THEN [client |-> [c EXCEPT !.pcs[t.pc] = OpEffect(p, t),
                                  !.tasks = Append(others, [t EXCEPT !.at = NextOp(t)])],
             sent |-> <<>>]
       ELSE [client |-> [c EXCEPT !.pcs[t.pc] = OpEffect(p, t), !.tasks = others],
             sent |-> IF c.ws = "open"
                      THEN [j \in DOMAIN Reply(t) |-> Stamp(self, Reply(t)[j])]
                      ELSE <<>>]

\* The messages on their way and the handler runs suspended, for the
\* participants U.
RECURSIVE InFlight(_)
InFlight(U) ==
    IF U = {} THEN 0
    ELSE LET u == CHOOSE v \in U : TRUE
         IN Len(up[u]) + Len(down[u]) + Len(clients[u].tasks) + InFlight(U \ {u})

\* initialize(wsUrl) of participant u.
PeerInitialize(u) ==
    /\ clients[u].ws = "null"
    /\ clients' = [clients EXCEPT ![u].ws = "connecting"]
    /\ UNCHANGED <<up, down, server, handlerVars, pageVars>>

\* wss.on('connection'): the socket of u joins the room.
ServerOnConnection(u) ==
    /\ clients[u].ws = "connecting"
    /\ u \notin server.room
    /\ server' = [server EXCEPT !.room = @ \cup {u}]
    /\ UNCHANGED <<clients, up, down, handlerVars, pageVars>>

\* ws.onopen of participant u: the join.
PeerOnOpen(u) ==
    /\ clients[u].ws = "connecting"
    /\ u \in server.room
    /\ InFlight(Users) < MaxInFlight
    /\ clients' = [clients EXCEPT ![u].ws = "open"]
    /\ up' = [up EXCEPT ![u] = Append(@, Stamp(u, [type |-> "join", userId |-> u,
                                                   userName |-> "name"]))]
    /\ UNCHANGED <<down, server, handlerVars, pageVars>>

\* broadcast(room, sender, msg): to every open socket of the room but the
\* sender's.
Broadcast(d, room, sender, msg) ==
    [v \in DOMAIN d |-> IF v \in room /\ v # sender THEN Append(d[v], msg) ELSE d[v]]

\* sendToUser(room, userId, data): to the sockets of the room whose userId
\* is userId.
SendToUser(d, room, named, userId, data) ==
    [v \in DOMAIN d |->
        IF v \in room /\ v \in named /\ v = userId THEN Append(d[v], data) ELSE d[v]]

\* ws.on('message') of the relay for the socket of u.
ServerOnMessage(u) ==
    /\ up[u] # <<>>
    /\ up' = [up EXCEPT ![u] = Tail(@)]
    /\ LET msg == Head(up[u])
       IN IF msg.type = "join"
          THEN /\ InFlight(Users) - 1 + Cardinality(server.room \ {u}) <= MaxInFlight
               /\ server' = [server EXCEPT !.named = @ \cup {msg.userId}]
               /\ down' = Broadcast(down, server.room, u,
                                    [type |-> "user-joined", userId |-> msg.userId,
                                     userName |-> msg.userName])
          ELSE /\ server' = server
               /\ down' = IF "to" \in DOMAIN msg
                          THEN SendToUser(down, server.room, server.named, msg.to, msg)
                          ELSE Broadcast(down, server.room, u, msg)
    /\ UNCHANGED <<clients, handlerVars, pageVars>>

\* ws.onmessage of participant u: the next message of its socket.
PeerOnMessage(u) ==
    /\ clients[u].ws = "open"
    /\ down[u] # <<>>
    /\ down' = [down EXCEPT ![u] = Tail(@)]
    /\ clients' = [clients EXCEPT ![u] = Dispatched(u, @, Head(down[u]))]
    /\ UNCHANGED <<up, server, handlerVars, pageVars>>

\* The operations of one connection settle in the order they were called.
PeerSettles(c, i) ==
    /\ i \in DOMAIN c.tasks
    /\ \A j \in 1..(i - 1) : c.tasks[j].pc # c.tasks[i].pc

\* The operation that the suspended run i of participant u awaits settles.
PeerResume(u, i) ==
    /\ PeerSettles(clients[u], i)
    /\ \E rollback \in RollbackChoices :
        LET r == Resumed(u, clients[u], i, rollback)
        IN /\ clients' = [clients EXCEPT ![u] = r.client]
           /\ up' = [up EXCEPT ![u] = @ \o r.sent]
    /\ UNCHANGED <<down, server, handlerVars, pageVars>>

\* addScreenShareTrack(track) of participant u in a meeting of two, called
\* once the connection to the other participant is made, both descriptions
\* are set and it is stable: the Map has that one entry, so the loop has
\* one iteration, addTrack and the await of createOffer.
PeerAddScreenShareTrack(u, track) ==
    LET c == clients[u]
    IN /\ c.ws = "open"
       /\ Len(c.peerConnections) = 1
       /\ LET userId == c.peerConnections[1].userId
              pc == c.peerConnections[1].pc
          IN /\ c.pcs[pc].signalingState = "stable"
             /\ c.pcs[pc].localDescription
             /\ c.pcs[pc].remoteDescription
             /\ ~AddTrackThrows(c.pcs[pc], track)
             /\ clients' = [clients EXCEPT
                              ![u].pcs[pc] = AddTrack(@, track),
                              ![u].tasks = Append(@, Run("addScreenShareTrack", userId, pc,
                                                         "createOffer", track))]
       /\ UNCHANGED <<up, down, server, handlerVars, pageVars>>

NextMesh ==
    \/ \E u \in Users : PeerInitialize(u)
    \/ \E u \in Users : ServerOnConnection(u)
    \/ \E u \in Users : PeerOnOpen(u)
    \/ \E u \in Users : ServerOnMessage(u)
    \/ \E u \in Users : PeerOnMessage(u)
    \/ \E u \in Users, i \in 1..MaxInFlight : PeerResume(u, i)

\* The participants of the meeting join through the relay.
SpecMesh == Init /\ [][NextMesh]_vars

\* A meeting of two.
Pair == {"u1", "u2"}

NextPair ==
    \/ \E u \in Pair : PeerInitialize(u)
    \/ \E u \in Pair : ServerOnConnection(u)
    \/ \E u \in Pair : PeerOnOpen(u)
    \/ \E u \in Pair : ServerOnMessage(u)
    \/ \E u \in Pair : PeerOnMessage(u)
    \/ \E u \in Pair, i \in 1..MaxInFlight : PeerResume(u, i)

\* The relay reads and delivers every message, the event loops run every
\* callback and the platform settles every operation; when a participant
\* calls initialize() is up to it.
FairPair ==
    \A u \in Pair :
        /\ WF_vars(ServerOnConnection(u))
        /\ WF_vars(PeerOnOpen(u))
        /\ WF_vars(ServerOnMessage(u))
        /\ WF_vars(PeerOnMessage(u))
        /\ \A i \in 1..MaxInFlight : WF_vars(PeerResume(u, i))

SpecPair == Init /\ [][NextPair]_vars /\ FairPair

\* A meeting of two in which either shares its screen when it likes.
NextGlare ==
    \/ NextPair
    \/ \E u \in Pair, track \in ScreenTracks : PeerAddScreenShareTrack(u, track)

SpecGlare == Init /\ [][NextGlare]_vars /\ FairPair

\* ------------------------------------------------------------------ specs
NextMembership ==
    \/ Initialize
    \/ WsOnOpen
    \/ \E u \in Users : HandleUserJoined(u)
    \/ \E u \in Users : HandleUserLeft(u)
    \/ \E i \in 1..MaxTasks : HandleUserJoinedResume(i)

\* The handler fed user-joined and user-left events only.
SpecMembership == Init /\ [][NextMembership]_vars

\* Everything that writes to the socket, with the socket's own events.
NextSignaling ==
    \/ Initialize
    \/ WsOnOpen
    \/ WsOnError
    \/ WsOnClose
    \/ \E u \in Remotes : HandleUserJoined(u)
    \/ \E u \in Remotes : HandleOffer(u, "sdp")
    \/ \E h \in 1..MaxPcs, c \in LocalCandidates : OnIceCandidate(h, c)
    \/ \E m, v \in BOOLEAN : NotifyMediaStateChange(m, v)
    \/ \E data \in SignalPayloads : CallSendSignal(data)
    \/ \E track \in ScreenTracks : AddScreenShareTrack(track)
    \/ \E track \in ScreenTracks : RemoveScreenShareTrack(track)
    \/ Close
    \/ \E i \in 1..MaxTasks : HandleUserJoinedResume(i)
    \/ \E i \in 1..MaxTasks : HandleOfferResume(i)
    \/ \E i \in 1..MaxTasks : AddScreenShareTrackResume(i)
    \/ \E i \in 1..MaxTasks : RemoveScreenShareTrackResume(i)

SpecSignaling == Init /\ [][NextSignaling]_vars

\* A screen-share fan-out among two remote participants where the platform
\* may leave the operations on the connection of Stalled unsettled for
\* ever and settles every other operation.
Stalled == "u2"

SettlesFor(u, i) ==
    /\ Settles(i)
    /\ tasks[i].userId = u

NextStall ==
    \/ Initialize
    \/ WsOnOpen
    \/ \E u \in Remotes : HandleUserJoined(u)
    \/ \E track \in ScreenTracks : AddScreenShareTrack(track)
    \/ \E i \in 1..MaxTasks : HandleUserJoinedResume(i)
    \/ \E i \in 1..MaxTasks : AddScreenShareTrackResume(i)

FairStall ==
    \A u \in Remotes \ {Stalled}, i \in 1..MaxTasks :
        /\ WF_vars(SettlesFor(u, i) /\ HandleUserJoinedResume(i))
        /\ WF_vars(SettlesFor(u, i) /\ AddScreenShareTrackResume(i))

SpecStall == Init /\ [][NextStall]_vars /\ FairStall

\* The remote tracks of connections made for the offers of remote
\* participants.
NextTracks ==
    \/ Initialize
    \/ WsOnOpen
    \/ SetOnRemoteStream
    \/ \E u \in Remotes : HandleOffer(u, "sdp")
    \/ \E i \in 1..MaxTasks : HandleOfferResume(i)
    \/ \E h \in 1..MaxPcs, track \in RemoteTracks : OnTrack(h, track)

SpecTracks == Init /\ [][NextTracks]_vars

\* Negotiation with remote participants while notifications of media state
\* come in and go out.
NextNotifications ==
    \/ Initialize
    \/ WsOnOpen
    \/ WsOnClose
    \/ \E u \in Remotes : HandleUserJoined(u)
    \/ \E i \in 1..MaxTasks : HandleUserJoinedResume(i)
    \/ \E type \in NotificationTypes : HandleSignalingMessage(type)
    \/ \E m, v \in BOOLEAN : NotifyMediaStateChange(m, v)
    \/ SetOnParticipantUpdate

SpecNotifications == Init /\ [][NextNotifications]_vars

\* The handler fed with whole messages from the socket.
NextDispatch ==
    \/ Initialize
    \/ WsOnOpen
    \/ \E message \in InboundMessages : WsOnMessage(message)
    \/ \E i \in 1..MaxTasks : HandleUserJoinedResume(i)
    \/ \E i \in 1..MaxTasks : HandleOfferResume(i)
    \/ \E i \in 1..MaxTasks : HandleAnswerResume(i)
    \/ \E i \in 1..MaxTasks : HandleIceCandidateResume(i)

SpecDispatch == Init /\ [][NextDispatch]_vars

\* Connections to remote participants whose transports change state.
NextFailure ==
    \/ Initialize
    \/ WsOnOpen
    \/ \E u \in Remotes : HandleUserJoined(u)
    \/ \E u \in Remotes : HandleUserLeft(u)
    \/ \E i \in 1..MaxTasks : HandleUserJoinedResume(i)
    \/ \E h \in 1..MaxPcs, state \in ConnectionStates : OnConnectionStateChange(h, state)

SpecFailure == Init /\ [][NextFailure]_vars

Next ==
    \/ Initialize
    \/ WsOnOpen
    \/ WsOnError
    \/ WsOnClose
    \/ \E u \in Users : HandleUserJoined(u)
    \/ \E u \in Users : HandleUserLeft(u)
    \/ \E u \in Remotes, sdp \in Sdps : HandleOffer(u, sdp)
    \/ \E u \in Remotes, sdp \in Sdps : HandleAnswer(u, sdp)
    \/ \E u \in Remotes, c \in Candidates : HandleIceCandidate(u, c)
    \/ \E track \in ScreenTracks : AddScreenShareTrack(track)
    \/ Close
    \/ \E i \in 1..MaxTasks : HandleUserJoinedResume(i)
    \/ \E i \in 1..MaxTasks : HandleOfferResume(i)
    \/ \E i \in 1..MaxTasks : HandleAnswerResume(i)
    \/ \E i \in 1..MaxTasks : HandleIceCandidateResume(i)
    \/ \E i \in 1..MaxTasks : AddScreenShareTrackResume(i)

Spec == Init /\ [][Next]_vars

\* --------------------------------------------------------------- claims
\* C1: after every user-joined / user-left event the key set of
\* peerConnections is exactly the set of participants that joined and did
\* not leave since.
C1_KeysArePresent == MapKeys(peerConnections) = present

C1_Witness ==
    /\ last.run.kind = "handleUserLeft"
    /\ last.pc # NoPc
    /\ present # {}
    /\ MapKeys(peerConnections) = present

\* C2: every open RTCPeerConnection is the value the Map holds for its
\* participant (so there is at most one per participant and none is leaked).
C2_NoLeakedConnection ==
    \A h \in DOMAIN pcs :
        pcs[h].signalingState # "closed" =>
            /\ MapHas(peerConnections, pcs[h].userId)
            /\ MapGet(peerConnections, pcs[h].userId) = h

\* C3: handling user-joined for a remote R puts a new connection with the
\* local tracks into the Map under R and writes nothing before its offer;
\* when createOffer and setLocalDescription are fulfilled and the socket is
\* open, the handler has written exactly one message, the offer with to = R
\* and from = self, and its connection is in have-local-offer.  An
\* operation of the handler is rejected only when the connection was closed
\* or took a remote offer in between.
C3_OffererPath ==
    LET r == last.run
    IN (r.kind = "handleUserJoined" /\ r.userId # SelfId) =>
        /\ last.settled = "none" =>
            /\ MapHas(peerConnections, r.userId)
            /\ MapGet(peerConnections, r.userId) = last.pc
            /\ pcs[last.pc] = AddTracks(NewPc(r.userId), LocalStreamTracks)
        /\ ~last.done => r.sent = <<>>
        /\ (last.done /\ last.failed = {} /\ ~r.dropped) =>
            /\ r.sent = <<[type |-> "offer", to |-> r.userId, sdp |-> "sdp",
                           from |-> SelfId]>>
            /\ pcs[last.pc].signalingState = "have-local-offer"
        /\ (last.done /\ last.failed # {}) =>
            pcs[last.pc].signalingState \in {"closed", "have-remote-offer"}

C3_Witness ==
    /\ last.run.kind = "handleUserJoined"
    /\ last.done
    /\ last.failed = {}
    /\ Len(last.run.sent) = 1
    /\ MapHas(peerConnections, last.userId)
    /\ pcs[MapGet(peerConnections, last.userId)].signalingState = "have-local-offer"

\* C4: handling an offer from a sender S that has no connection puts a new
\* connection with the local tracks into the Map under S; the accepted
\* remote offer takes it to have-remote-offer; when the three operations are
\* fulfilled and the socket is open, the handler has written exactly one
\* message, the answer with to = S and from = self, and its connection is
\* stable.  An operation of the handler is rejected only for a malformed
\* description or when the connection was closed or renegotiated in
\* between.
C4_AnswererPath ==
    LET r == last.run
    IN (r.kind = "handleOffer" /\ r.created) =>
        /\ last.settled = "none" =>
            /\ MapHas(peerConnections, r.userId)
            /\ MapGet(peerConnections, r.userId) = last.pc
            /\ pcs[last.pc] = AddTracks(NewPc(r.userId), LocalStreamTracks)
        /\ (last.settled = "setRemoteDescription" /\ ~last.done) =>
            pcs[last.pc].signalingState = "have-remote-offer"
        /\ ~last.done => r.sent = <<>>
        /\ (last.done /\ last.failed = {} /\ ~r.dropped) =>
            /\ r.sent = <<[type |-> "answer", to |-> r.userId, sdp |-> "sdp",
                           from |-> SelfId]>>
            /\ pcs[last.pc].signalingState = "stable"
            /\ LocalStreamTracks \subseteq pcs[last.pc].senders
        /\ (last.done /\ last.failed # {}) =>
            \/ ~ValidSdp(r.arg)
            \/ pcs[last.pc].signalingState \in {"closed", "stable", "have-local-offer"}

C4_Witness ==
    /\ last.run.kind = "handleOffer"
    /\ last.run.created
    /\ last.done
    /\ last.failed = {}
    /\ Len(last.run.sent) = 1
    /\ pcs[last.pc].signalingState = "stable"

\* C5: no well-formed candidate received for a connection is lost for
\* having come before the remote description: once the connection has its
\* remote description and no ice-candidate handler is pending for it, the
\* candidates applied to it are those received for it, in receive order.
C5_CandidatesAppliedInOrder ==
    \A h \in DOMAIN pcs :
        (/\ pcs[h].signalingState # "closed"
         /\ pcs[h].remoteDescription
         /\ \A i \in DOMAIN tasks :
               ~(tasks[i].kind = "handleIceCandidate" /\ tasks[i].pc = h))
        => pcs[h].candidates = pcs[h].received

\* The offers a fan-out writes for the entries it visited, in order.
OffersTo(visited) ==
    [i \in DOMAIN visited |->
        [type |-> "offer", to |-> visited[i], sdp |-> "sdp", from |-> SelfId]]

\* C6: addScreenShareTrack binds the track to the connection of each entry
\* it visits; an iteration whose operations are fulfilled leaves that
\* connection in have-local-offer and, the socket open, writes the offer
\* with to = that entry's id; the fan-out returns only after it visited
\* every entry that is in the Map from its beginning to its end; a fan-out
\* that visited exactly the N entries
\* the Map held when it began, none failing and the socket open throughout,
\* has written exactly N offers, one per entry, and then
\* screen-share-started.
C6_FanOutComplete ==
    LET r == last.run
    IN r.kind = "addScreenShareTrack" =>
        /\ ~last.done => r.arg \in pcs[r.pc].senders
        /\ (last.settled = "setLocalDescription" /\ last.userId \notin last.failed) =>
            /\ pcs[last.pc].signalingState = "have-local-offer"
            /\ r.arg \in pcs[last.pc].senders
            /\ ws = "open" =>
                /\ last.out # <<>>
                /\ Head(last.out) = [type |-> "offer", to |-> last.userId,
                                     sdp |-> "sdp", from |-> SelfId]
        /\ last.done => (r.keys0 \cap MapKeys(peerConnections)) \subseteq SeqRange(r.visited)
        /\ (/\ last.done
            /\ r.failed = {}
            /\ ~r.dropped
            /\ SeqRange(r.visited) = r.keys0
            /\ Len(r.visited) = Cardinality(r.keys0)) =>
            r.sent = OffersTo(r.visited)
                     \o <<[type |-> "screen-share-started", userId |-> SelfId,
                           from |-> SelfId]>>

C6_Witness ==
    /\ last.run.kind = "addScreenShareTrack"
    /\ last.done
    /\ last.run.failed = {}
    /\ last.run.keys0 = Remotes
    /\ Len(last.run.visited) = 2
    /\ Len(last.run.sent) = 3
    /\ \A k \in Remotes :
          /\ MapHas(peerConnections, k)
          /\ pcs[MapGet(peerConnections, k)].remoteDescription
          /\ pcs[MapGet(peerConnections, k)].signalingState = "have-local-offer"
          /\ "screen" \in pcs[MapGet(peerConnections, k)].senders

\* C7: a step in which a rejection or an exception is caught for
\* participant B changes no entry of the Map and no connection of any other
\* participant (but for the track the fan-out binds to the entry it goes on
\* with), and a fan-out goes on: the entries its iterator had yet to visit
\* are visited or still to be visited, and it does not return before its
\* iterator is exhausted.
C7_FaultIsolation ==
    [][last'.failed # {} =>
        /\ peerConnections' = peerConnections
        /\ \A h \in DOMAIN pcs :
              (pcs[h].userId \notin last'.failed /\ h # last'.pc) =>
                  \/ pcs'[h] = pcs[h]
                  \/ /\ last'.run.kind \in FanOutKinds
                     /\ h = last'.run.pc
                     /\ pcs'[h] = AddTrack(pcs[h], last'.run.arg)
        /\ last'.run.kind \in FanOutKinds =>
              /\ last'.done => last'.run.rest = <<>>
              /\ \A i \in DOMAIN tasks :
                    (Settles(i) /\ tasks[i].kind = last'.run.kind
                        /\ tasks[i].pc = last'.pc) =>
                        SeqRange(tasks[i].rest) \subseteq
                            SeqRange(last'.run.visited) \cup SeqRange(last'.run.rest)
    ]_vars

C7_Witness ==
    /\ last.run.kind = "addScreenShareTrack"
    /\ last.settled # "none"
    /\ last.failed = {last.userId}
    /\ ~last.done
    /\ last.run.userId \notin last.failed
    /\ "screen" \in pcs[last.run.pc].senders

\* C8: when the platform rejects a remote description or a remote candidate
\* for participant B, B's connection is closed and B is no key of the Map
\* once the handler has returned.
C8_FailedConnectionTornDown ==
    (/\ last.failed # {}
     /\ last.settled \in {"setRemoteDescription", "addIceCandidate"}
     /\ last.done)
    => /\ ~MapHas(peerConnections, last.userId)
       /\ pcs[last.pc].signalingState = "closed"

\* C9: whenever close() is called (before initialize, while the socket is
\* connecting, open or closed, a second time) no exception escapes it and
\* it leaves the Map empty and this.ws null.
C9_CloseIdempotent ==
    last.run.kind = "close" =>
        /\ ~last.fault
        /\ peerConnections = <<>>
        /\ ws = "null"

\* close() called when an earlier close() had already run.
C9_Witness ==
    /\ last.run.kind = "close"
    /\ last.run.arg = "null"
    /\ pcs # <<>>
    /\ \A h \in DOMAIN pcs : pcs[h].signalingState = "closed"

\* C10: close() closes every connection of the Map and leaves this.ws null
\* without an exception; with the socket open it writes exactly one
\* message, the leave with userId = self and from = self, and otherwise
\* none.
C10_CloseLeaves ==
    [][last'.run.kind = "close" =>
        /\ ~last'.fault
        /\ ws' = "null"
        /\ \A k \in MapKeys(peerConnections) :
              pcs'[MapGet(peerConnections, k)].signalingState = "closed"
        /\ ws = "open" =>
              last'.out = <<[type |-> "leave", userId |-> SelfId, from |-> SelfId]>>
        /\ ws # "open" => last'.out = <<>>
    ]_vars

C10_Witness ==
    /\ last.run.kind = "close"
    /\ last.run.arg = "open"
    /\ Len(last.out) = 1
    /\ \E h \in DOMAIN pcs : pcs[h].signalingState = "closed"

\* C11: handlers of one connection are serialized: no handler is
\* dispatched for a connection, or goes on to it in a fan-out, while
\* another handler is suspended at an operation of that connection, so no
\* two suspended handlers ever work on the same connection.
C11_HandlersSerialized ==
    \A i, j \in DOMAIN tasks : i # j => tasks[i].pc # tasks[j].pc

\* C12: every connection of the Map has a sender for each track of the
\* local stream and for each screen-share track handed over and not taken
\* back, unless a fan-out that is still running has yet to reach it.
C12_TracksMirrored ==
    \A k \in MapKeys(peerConnections) :
        /\ LocalStreamTracks \subseteq pcs[MapGet(peerConnections, k)].senders
        /\ (\A i \in DOMAIN tasks : tasks[i].kind \notin FanOutKinds) =>
              hist.attached \subseteq pcs[MapGet(peerConnections, k)].senders

\* C13: every message written to the socket carries from = this.userId,
\* also when the payload handed to sendSignal names another sender.
C13_FromIsSelf ==
    \A i \in DOMAIN last.out :
        /\ "from" \in DOMAIN last.out[i]
        /\ last.out[i].from = SelfId

\* sendSignal was handed a payload with from = "u2" and wrote it.
C13_Witness ==
    /\ last.run.kind = "sendSignal"
    /\ last.run.arg = "u2"
    /\ Len(last.out) = 1
    /\ last.out[1].from = SelfId

DirectedTypes == {"offer", "answer", "ice-candidate"}
BroadcastTypes ==
    {"join", "leave", "media-state-change", "screen-share-started", "screen-share-stopped"}

\* C14: every offer, answer and ice-candidate written carries to = the
\* participant for whom the connection it comes from was made, and every
\* join, leave, media-state-change, screen-share-started and
\* screen-share-stopped written carries no to field.
C14_DirectedCarryTo ==
    \A i \in DOMAIN last.out :
        LET m == last.out[i]
        IN /\ m.type \in DirectedTypes =>
                /\ last.pc # NoPc
                /\ "to" \in DOMAIN m
                /\ m.to = pcs[last.pc].userId
           /\ m.type \in BroadcastTypes => "to" \notin DOMAIN m

\* removeScreenShareTrack wrote its last offer and screen-share-stopped.
C14_Witness ==
    /\ last.run.kind = "removeScreenShareTrack"
    /\ Len(last.out) = 2
    /\ last.out[1].type = "offer"
    /\ last.out[1].to = pcs[last.pc].userId
    /\ last.out[2].type = "screen-share-stopped"

\* C15: a run that calls sendSignal while this.ws is null or not open
\* writes nothing and raises nothing; when the run is nothing but that call
\* it changes no connection, no entry of the Map and no handler; and
\* nothing was kept for later: when the socket opens, the join is all that
\* is written.
C15_SendChecksChannel ==
    [][/\ (last'.calls > 0 /\ last'.run.kind # "onopen" /\ ws # "open") =>
            /\ last'.out = <<>>
            /\ ~last'.fault
            /\ last'.run.kind \in {"sendSignal", "notifyMediaStateChange", "onicecandidate"} =>
                  /\ peerConnections' = peerConnections
                  /\ pcs' = pcs
                  /\ tasks' = tasks
       /\ last'.run.kind = "onopen" => Len(last'.out) = 1
    ]_vars

\* A connection's candidate comes while the socket is not open.
C15_Witness ==
    /\ last.run.kind = "onicecandidate"
    /\ last.calls = 1
    /\ last.out = <<>>
    /\ ws # "open"
    /\ peerConnections # <<>>

C17_JoinFirst ==
    /\ last.run.kind = "onopen" =>
          last.out = <<[type |-> "join", userId |-> SelfId, userName |-> "name",
                        from |-> SelfId]>>
    /\ hist.first \in {"none", "join"}
    /\ hist.joins <= 1
    /\ hist.promise = "pending" => hist.first = "none"
    /\ hist.promise = "resolved" => (hist.first = "join" /\ hist.joins = 1)
    /\ hist.promise = "rejected" => (hist.first = "none" /\ hist.joins = 0)

\* An offer is written to a socket whose promise was resolved.
C17_Witness ==
    /\ hist.promise = "resolved"
    /\ hist.first = "join"
    /\ last.run.kind = "handleUserJoined"
    /\ Len(last.out) = 1
    /\ last.out[1].type = "offer"

\* C20: when the setRemoteDescription of handleAnswer is reached on a
\* connection in have-local-offer, a well-formed answer takes the
\* connection to stable; in any other state the answer is rejected and the
\* connection is as it was; in both cases the Map and the other connections
\* are unchanged, nothing is written and no exception escapes the handler.
C20_AnswerOnlyInHaveLocalOffer ==
    [][(last'.run.kind = "handleAnswer" /\ last'.settled = "setRemoteDescription") =>
        /\ IF pcs[last'.pc].signalingState = "have-local-offer" /\ ValidSdp(last'.run.arg)
           THEN /\ pcs'[last'.pc].signalingState = "stable"
                /\ pcs'[last'.pc].remoteDescription
                /\ last'.failed = {}
           ELSE /\ pcs'[last'.pc] = pcs[last'.pc]
                /\ last'.failed = {last'.userId}
        /\ \A h \in DOMAIN pcs : h # last'.pc => pcs'[h] = pcs[h]
        /\ peerConnections' = peerConnections
        /\ last'.out = <<>>
        /\ last'.done
        /\ ~last'.fault
    ]_vars

\* A well-formed answer was rejected on a stable connection of the Map.
C20_Witness ==
    /\ last.run.kind = "handleAnswer"
    /\ last.settled = "setRemoteDescription"
    /\ ValidSdp(last.run.arg)
    /\ last.failed # {}
    /\ pcs[last.pc].signalingState = "stable"
    /\ MapHas(peerConnections, last.userId)
    /\ MapGet(peerConnections, last.userId) = last.pc

\* Nothing is on its way and no handler is suspended.
Quiescent ==
    \A u \in Users : up[u] = <<>> /\ down[u] = <<>> /\ clients[u].tasks = <<>>

\* C18: whenever the meeting is quiet, the Map of every participant whose
\* join the relay has read holds one entry for each other such participant
\* and no other entry.
C18_FullMesh ==
    Quiescent =>
        \A u \in Users :
            /\ MapKeys(clients[u].peerConnections) =
                   IF u \in server.named THEN server.named \ {u} ELSE {}
            /\ Len(clients[u].peerConnections) =
                   Cardinality(MapKeys(clients[u].peerConnections))

\* Three participants have joined and the meeting is quiet.
C18_Witness ==
    /\ Quiescent
    /\ server.named = Users
    /\ \A u \in Users : Len(clients[u].peerConnections) = 2

\* b is in the meeting and a has called initialize(), its socket not yet
\* in the room.
Joins(a, b) ==
    /\ b \in server.named
    /\ clients[b].ws = "open"
    /\ clients[a].ws = "connecting"
    /\ a \notin server.room

\* The connection of a for b has both descriptions and is stable.
Established(a, b) ==
    /\ MapHas(clients[a].peerConnections, b)
    /\ LET p == clients[a].pcs[MapGet(clients[a].peerConnections, b)]
       IN /\ p.signalingState = "stable"
          /\ p.localDescription
          /\ p.remoteDescription

\* C19: when a joins a meeting of which b is a member, eventually the
\* connection of a for b and the connection of b for a are both stable,
\* with the offer of b and the answer of a applied on both sides.
C19_PairEstablished ==
    \A a, b \in Pair :
        a # b => (Joins(a, b) ~> (Established(a, b) /\ Established(b, a)))

\* u1 joined after u2: only u2 heard a user-joined, and both are connected.
C19_Witness ==
    /\ clients["u1"].heard = {}
    /\ clients["u2"].heard = {"u1"}
    /\ Established("u1", "u2")
    /\ Established("u2", "u1")
    /\ Quiescent

\* C21: an offer from a sender whose connection is in the Map makes no
\* connection, changes no entry of the Map and adds no track to any
\* connection; its dispatch changes no connection at all; reached on a
\* stable connection, a well-formed offer is accepted and takes the
\* connection to have-remote-offer; with the three operations fulfilled and
\* the socket open the handler writes exactly one message, the answer with
\* to = the sender, in the step that takes the connection back to stable.
C21_Renegotiation ==
    [][(last'.run.kind = "handleOffer" /\ ~last'.run.created) =>
        /\ peerConnections' = peerConnections
        /\ DOMAIN pcs' = DOMAIN pcs
        /\ \A h \in DOMAIN pcs : pcs'[h].senders = pcs[h].senders
        /\ last'.settled = "none" =>
              /\ pcs' = pcs
              /\ last'.pc = MapGet(peerConnections, last'.userId)
        /\ (/\ last'.settled = "setRemoteDescription"
            /\ pcs[last'.pc].signalingState = "stable"
            /\ ValidSdp(last'.run.arg)) =>
              /\ last'.failed = {}
              /\ pcs'[last'.pc].signalingState = "have-remote-offer"
        /\ ~last'.done => last'.out = <<>>
        /\ (last'.done /\ last'.failed = {}) =>
              /\ pcs[last'.pc].signalingState = "have-remote-offer"
              /\ pcs'[last'.pc].signalingState = "stable"
              /\ ws = "open" =>
                    /\ last'.out = <<[type |-> "answer", to |-> last'.userId,
                                      sdp |-> "sdp", from |-> SelfId]>>
                    /\ last'.run.sent = last'.out
    ]_vars

\* A second offer of the same sender was answered on the connection of the
\* first.
C21_Witness ==
    /\ last.run.kind = "handleOffer"
    /\ ~last.run.created
    /\ last.done
    /\ last.failed = {}
    /\ Len(last.run.sent) = 1
    /\ Len(pcs) = 1
    /\ pcs[last.pc].signalingState = "stable"
    /\ pcs[last.pc].senders = LocalStreamTracks

\* C22: a fan-out produces an offer for a connection only when that
\* connection is stable: the step in which the setLocalDescription of an
\* iteration is fulfilled and its offer is handed to sendSignal begins with
\* the connection in stable, never in have-local-offer.
C22_OfferOnlyWhenStable ==
    [][(/\ last'.run.kind \in FanOutKinds
        /\ last'.settled = "setLocalDescription"
        /\ last'.userId \notin last'.failed
        /\ last'.calls >= 1) =>
            pcs[last'.pc].signalingState = "stable"
    ]_vars

\* C23: a fan-out visits only participants whose entries were in the Map
\* when it began.
C23_VisitsSnapshot ==
    last.run.kind \in FanOutKinds => SeqRange(last.run.visited) \subseteq last.run.keys0

\* C24: a handler that resumes from an operation on a connection that has
\* been closed meanwhile catches the rejection; the run changes no entry of
\* the Map, leaves the closed connection as it is, changes the signaling
\* state of no connection and writes no message addressed to the
\* participant of the closed connection.  A handler of one connection
\* (handleUserJoined, handleOffer, handleAnswer, handleIceCandidate) returns
\* having changed nothing and called sendSignal not at all; a fan-out goes
\* on with the entries that remain.
C24_NoStaleWrites ==
    [][(/\ last'.settled # "none"
        /\ pcs[last'.pc].signalingState = "closed") =>
            /\ last'.userId \in last'.failed
            /\ peerConnections' = peerConnections
            /\ pcs'[last'.pc] = pcs[last'.pc]
            /\ \A h \in DOMAIN pcs : pcs'[h].signalingState = pcs[h].signalingState
            /\ \A k \in DOMAIN last'.out :
                  "to" \in DOMAIN last'.out[k] => last'.out[k].to # last'.userId
            /\ last'.run.kind \notin FanOutKinds =>
                  /\ pcs' = pcs
                  /\ last'.done
                  /\ last'.calls = 0
    ]_vars

\* A handler resumed on the closed connection of a participant who has no
\* entry any more.
C24_Witness ==
    /\ last.settled # "none"
    /\ last.run.kind \in {"handleUserJoined", "handleOffer"}
    /\ pcs[last.pc].signalingState = "closed"
    /\ ~MapHas(peerConnections, last.userId)
    /\ last.userId \in last.failed
    /\ last.out = <<>>

\* C26: user-left for a participant with an entry closes the connection of
\* that entry and deletes the entry; every other entry of the Map, their
\* order and every other connection stay as they were.  user-left for a
\* participant without an entry changes neither the Map nor any connection
\* nor any suspended handler.  In both cases the handler returns at once
\* without an exception and without calling sendSignal.
C26_UserLeft ==
    [][last'.run.kind = "handleUserLeft" =>
        /\ last'.done
        /\ ~last'.fault
        /\ last'.failed = {}
        /\ last'.calls = 0
        /\ DOMAIN pcs' = DOMAIN pcs
        /\ IF MapHas(peerConnections, last'.userId)
           THEN LET pc == MapGet(peerConnections, last'.userId)
                IN /\ last'.pc = pc
                   /\ pcs'[pc] = [pcs[pc] EXCEPT !.signalingState = "closed"]
                   /\ \A h \in DOMAIN pcs \ {pc} : pcs'[h] = pcs[h]
                   /\ ~MapHas(peerConnections', last'.userId)
                   /\ peerConnections' =
                        SelectSeq(peerConnections, LAMBDA e : e.userId # last'.userId)
           ELSE /\ peerConnections' = peerConnections
                /\ pcs' = pcs
                /\ tasks' = tasks
    ]_vars

\* A participant left whose connection was open while another participant
\* keeps an open connection.
C26_Witness ==
    /\ last.run.kind = "handleUserLeft"
    /\ last.pc # NoPc
    /\ pcs[last.pc].signalingState = "closed"
    /\ ~MapHas(peerConnections, last.userId)
    /\ \E e \in SeqRange(peerConnections) :
          /\ e.userId # last.userId
          /\ pcs[e.pc].signalingState # "closed"

\* C25: when addScreenShareTrack is suspended on the connection of one
\* participant while the entry of another participant is still to be
\* visited, the track is eventually bound to the connection of that other
\* participant (the first statement of its iteration, before its offer),
\* even if the operation on the first connection never settles.
C25_OtherConnectionProgresses ==
    (\E i \in DOMAIN tasks :
        /\ tasks[i].kind = "addScreenShareTrack"
        /\ tasks[i].userId = Stalled
        /\ "u3" \in SeqRange(tasks[i].rest))
    ~> (/\ MapHas(peerConnections, "u3")
        /\ "screen" \in pcs[MapGet(peerConnections, "u3")].senders)

\* C27: in every run of removeScreenShareTrack the Map is unchanged and a
\* connection that has no sender for the track is unchanged; the run
\* suspends only on a connection that had a sender for the track, with the
\* sender removed; an offer is written only in the run in which the
\* setLocalDescription of an iteration is fulfilled, one offer, with to =
\* the participant of that iteration, who was not passed over, and that
\* connection is then in have-local-offer; a fan-out that
\* returns with nothing failed and the socket open throughout has written
\* exactly one offer for each entry it did not pass over, in order, and
\* then screen-share-stopped.
C27_RemoveFanOut ==
    [][LET r == last'.run
       IN r.kind = "removeScreenShareTrack" =>
        /\ peerConnections' = peerConnections
        /\ \A h \in DOMAIN pcs \ {last'.pc} :
              r.arg \notin pcs[h].senders => pcs'[h] = pcs[h]
        /\ \A h \in DOMAIN pcs : pcs'[h].senders \in {pcs[h].senders, pcs[h].senders \ {r.arg}}
        /\ (~last'.done /\ r.at = "createOffer") =>
              /\ r.arg \in pcs[r.pc].senders
              /\ r.arg \notin pcs'[r.pc].senders
              /\ r.userId \notin r.skipped
        /\ \A k \in DOMAIN last'.out :
              last'.out[k].type = "offer" =>
                 /\ k = 1
                 /\ last'.settled = "setLocalDescription"
                 /\ last'.out[k].to = last'.userId
                 /\ last'.userId \notin r.skipped
        /\ (last'.settled = "setLocalDescription" /\ last'.userId \notin last'.failed) =>
              /\ pcs'[last'.pc].signalingState = "have-local-offer"
              /\ ws = "open" =>
                    /\ last'.out # <<>>
                    /\ Head(last'.out) = [type |-> "offer", to |-> last'.userId,
                                          sdp |-> "sdp", from |-> SelfId]
        /\ (last'.done /\ r.failed = {} /\ ~r.dropped) =>
              r.sent = OffersTo(SelectSeq(r.visited, LAMBDA u : u \notin r.skipped))
                       \o <<[type |-> "screen-share-stopped", userId |-> SelfId,
                             from |-> SelfId]>>
    ]_vars

\* The screen-share track was removed from the one connection it was bound
\* to and that participant was sent the offer.
C27_Witness ==
    /\ last.run.kind = "removeScreenShareTrack"
    /\ last.done
    /\ last.run.failed = {}
    /\ last.run.skipped = {}
    /\ last.run.visited = <<"u2">>
    /\ Len(last.run.sent) = 2
    /\ "screen" \notin pcs[MapGet(peerConnections, "u2")].senders
    /\ pcs[MapGet(peerConnections, "u2")].signalingState = "have-local-offer"

\* C28: the run of pc.onicecandidate for a candidate of the connection made
\* for R calls sendSignal once and, the socket open, writes exactly one
\* message, ice-candidate with to = R, that candidate and from = this
\* handler's id; the socket not open it writes nothing; for the null
\* candidate it does not call sendSignal; it changes no connection, no
\* entry of the Map and no handler, so nothing is kept of the candidate;
\* and no other run writes an ice-candidate: a candidate not written in its
\* own run is never written.
C28_CandidateForwardedAtOnce ==
    [][/\ last'.run.kind = "onicecandidate" =>
            /\ last'.done
            /\ peerConnections' = peerConnections
            /\ pcs' = pcs
            /\ tasks' = tasks
            /\ last'.userId = pcs[last'.pc].userId
            /\ last'.calls = (IF last'.run.arg = "null" THEN 0 ELSE 1)
            /\ last'.out = (IF last'.run.arg # "null" /\ ws = "open"
                            THEN <<[type |-> "ice-candidate", to |-> pcs[last'.pc].userId,
                                    candidate |-> last'.run.arg, from |-> SelfId]>>
                            ELSE <<>>)
       /\ \A k \in DOMAIN last'.out :
            last'.out[k].type = "ice-candidate" =>
               /\ last'.run.kind = "onicecandidate"
               /\ last'.out[k].candidate = last'.run.arg
    ]_vars

\* A candidate of the connection for u2 was forwarded.
C28_Witness ==
    /\ last.run.kind = "onicecandidate"
    /\ last.run.arg = "l1"
    /\ last.userId = "u2"
    /\ Len(last.out) = 1
    /\ last.out[1].type = "ice-candidate"
    /\ last.out[1].to = "u2"

\* C29: the run of pc.ontrack for a track of the connection made for R
\* calls the callback the application set exactly once, with R, the first
\* stream of the event (undefined when the event has none) and the track;
\* with no callback set there is nobody to call and the run does nothing;
\* the run changes no connection, no entry of the Map and no handler and
\* sends nothing; and no other run calls the callback, so the calls the
\* application received are, one for one and in order, the tracks that
\* arrived.
C29_OneEventPerTrack ==
    [][/\ last'.run.kind = "ontrack" =>
            LET call == [userId |-> pcs[last'.pc].userId,
                         stream |-> FirstStream(EventStreams(last'.run.arg)),
                         track |-> last'.run.arg]
            IN /\ IF onRemoteStream.set
                  THEN /\ last'.events = <<call>>
                       /\ onRemoteStream'.calls = Append(onRemoteStream.calls, call)
                  ELSE /\ last'.events = <<>>
                       /\ onRemoteStream' = onRemoteStream
               /\ ~last'.fault
               /\ last'.calls = 0
               /\ peerConnections' = peerConnections
               /\ pcs' = pcs
               /\ tasks' = tasks
       /\ last'.run.kind # "ontrack" =>
            /\ last'.events = <<>>
            /\ onRemoteStream'.calls = onRemoteStream.calls
    ]_vars

\* The audio track and the video track of u2 arrived: two calls with u2.
C29_Witness ==
    /\ last.run.kind = "ontrack"
    /\ Len(onRemoteStream.calls) = 2
    /\ {onRemoteStream.calls[k].track : k \in {1, 2}} = {"audio", "video"}
    /\ \A k \in {1, 2} : onRemoteStream.calls[k].userId = "u2"
    /\ \A k \in {1, 2} : onRemoteStream.calls[k].stream = "s1"

\* C30: the run for an inbound media-state-change, screen-share-started or
\* screen-share-stopped changes no entry of the Map, no connection and no
\* suspended handler and does not call sendSignal; a call of
\* notifyMediaStateChange changes none of them either and writes, the
\* socket open, exactly one message, the media-state-change with the given
\* flags, and nothing otherwise: neither writes an offer, an answer or an
\* ice-candidate.
C30_NotificationsDoNotNegotiate ==
    [][/\ (/\ last'.run.kind = "handleSignalingMessage"
           /\ last'.run.arg \in NotificationTypes) =>
            /\ peerConnections' = peerConnections
            /\ pcs' = pcs
            /\ tasks' = tasks
            /\ last'.done
            /\ ~last'.fault
            /\ last'.calls = 0
            /\ last'.out = <<>>
       /\ last'.run.kind = "notifyMediaStateChange" =>
            /\ peerConnections' = peerConnections
            /\ pcs' = pcs
            /\ tasks' = tasks
            /\ last'.done
            /\ last'.calls = 1
            /\ Len(last'.out) = (IF ws = "open" THEN 1 ELSE 0)
            /\ \A k \in DOMAIN last'.out :
                  /\ last'.out[k].type = "media-state-change"
                  /\ last'.out[k].type \notin DirectedTypes
                  /\ last'.out[k].userId = SelfId
                  /\ "to" \notin DOMAIN last'.out[k]
    ]_vars

\* A notification came in while the offer to u2 was being made.
C30_Witness ==
    /\ last.run.kind = "handleSignalingMessage"
    /\ last.run.arg = "screen-share-started"
    /\ \E i \in DOMAIN tasks :
          /\ tasks[i].kind = "handleUserJoined"
          /\ tasks[i].at = "setLocalDescription"
    /\ \E h \in DOMAIN pcs : pcs[h].signalingState = "have-local-offer"

\* C31: the run for an inbound media-state-change, screen-share-started or
\* screen-share-stopped, the application having set its callback, calls
\* the callback once: the application receives one more notification.
C31_NotificationForwarded ==
    [][(/\ last'.run.kind = "handleSignalingMessage"
        /\ last'.run.arg \in NotificationTypes
        /\ onParticipantUpdate.set) =>
            \/ Len(onParticipantUpdate'.calls) = Len(onParticipantUpdate.calls) + 1
            \/ Len(onRemoteStream'.calls) = Len(onRemoteStream.calls) + 1
    ]_vars

\* C32: the run for an inbound message whose type has no case, or which
\* has no type, changes no entry of the Map, no connection, no suspended
\* handler and not the socket, calls sendSignal not at all and raises
\* nothing; and the message that follows it is dispatched as ever: a
\* user-joined of a remote participant can be handled next (room for a
\* connection and a handler left), and handled next it makes the
\* connection and awaits createOffer.
C32_UnknownTypeDiscarded ==
    [][/\ (/\ last'.run.kind = "handleSignalingMessage"
           /\ last'.run.arg \in UnknownTypes) =>
            /\ peerConnections' = peerConnections
            /\ pcs' = pcs
            /\ tasks' = tasks
            /\ ws' = ws
            /\ last'.done
            /\ ~last'.fault
            /\ last'.calls = 0
            /\ last'.out = <<>>
       /\ (/\ last.run.kind = "handleSignalingMessage"
           /\ last.run.arg \in UnknownTypes
           /\ nEvents < MaxEvents
           /\ Len(pcs) < MaxPcs
           /\ Len(tasks) < MaxTasks) =>
            \A u \in Remotes : ENABLED WsOnMessage([type |-> "user-joined", userId |-> u])
       /\ (/\ last.run.kind = "handleSignalingMessage"
           /\ last.run.arg \in UnknownTypes
           /\ \E u \in Remotes : WsOnMessage([type |-> "user-joined", userId |-> u])) =>
            /\ last'.run.kind = "handleUserJoined"
            /\ MapHas(peerConnections', last'.userId)
            /\ last'.run.at = "createOffer"
            /\ ~last'.done
    ]_vars

\* A message of an unknown type came in while the offer to a participant
\* was being made.
C32_Witness ==
    /\ last.run.kind = "handleSignalingMessage"
    /\ last.run.arg = "ping"
    /\ ws = "open"
    /\ \E i \in DOMAIN tasks : tasks[i].kind = "handleUserJoined"
    /\ peerConnections # <<>>

\* C33: the run that dispatches an inbound offer, answer or ice-candidate
\* which has no to field makes no connection and changes no entry of the
\* Map, no connection and no suspended handler.
C33_DirectedWithoutToDiscarded ==
    [][\A message \in InboundMessages :
          (/\ Field(message, "type") \in DirectedTypes
           /\ "to" \notin DOMAIN message
           /\ WsOnMessage(message)) =>
                /\ peerConnections' = peerConnections
                /\ pcs' = pcs
                /\ tasks' = tasks
    ]_vars

\* C34: the run for an inbound answer or ice-candidate whose sender has no
\* entry in the Map makes no connection, changes no entry of the Map, no
\* connection and no suspended handler, awaits nothing, calls sendSignal
\* not at all and raises nothing.
C34_UnknownSenderDiscarded ==
    [][(/\ last'.run.kind \in {"handleAnswer", "handleIceCandidate"}
        /\ last'.settled = "none"
        /\ ~MapHas(peerConnections, last'.userId)) =>
            /\ peerConnections' = peerConnections
            /\ pcs' = pcs
            /\ tasks' = tasks
            /\ last'.pc = NoPc
            /\ last'.done
            /\ ~last'.fault
            /\ last'.failed = {}
            /\ last'.calls = 0
            /\ last'.out = <<>>
    ]_vars

\* An answer of u3 came in while only u2 has a connection.
C34_Witness ==
    /\ last.run.kind = "handleAnswer"
    /\ last.userId = "u3"
    /\ last.settled = "none"
    /\ last.done
    /\ ~MapHas(peerConnections, "u3")
    /\ MapHas(peerConnections, "u2")
    /\ Len(pcs) = 1

\* C35: the run for a user-joined whose userId is the handler's own id
\* returns at once: the Map has no entry for the own id after it, no entry
\* of the Map, no connection and no suspended handler is changed, and
\* sendSignal is not called, so no offer is written then or later for it.
C35_OwnJoinIgnored ==
    [][(/\ last'.run.kind = "handleUserJoined"
        /\ last'.settled = "none"
        /\ last'.userId = SelfId) =>
            /\ peerConnections' = peerConnections
            /\ ~MapHas(peerConnections', SelfId)
            /\ pcs' = pcs
            /\ tasks' = tasks
            /\ last'.pc = NoPc
            /\ last'.done
            /\ last'.calls = 0
            /\ last'.out = <<>>
    ]_vars

\* The handler's own user-joined came in after that of u2.
C35_Witness ==
    /\ last.run.kind = "handleUserJoined"
    /\ last.userId = SelfId
    /\ last.done
    /\ MapKeys(peerConnections) = {"u2"}
    /\ \A i \in DOMAIN tasks : tasks[i].userId # SelfId

\* C36: the run of pc.onconnectionstatechange that finds the connection
\* failed closes the connection and leaves no entry of the Map that holds
\* it.
C36_FailedConnectionDestroyed ==
    [][(/\ last'.run.kind = "onconnectionstatechange"
        /\ last'.run.arg = "failed") =>
            /\ pcs'[last'.pc].signalingState = "closed"
            /\ \A e \in SeqRange(peerConnections') : e.pc # last'.pc
    ]_vars

\* The connection of participant a to participant b.
PeerPc(a, b) == clients[a].pcs[MapGet(clients[a].peerConnections, b)]

\* Both participants of the meeting of two have bound the screen-share
\* track to their established connection and set their offer.
Glare ==
    \A a \in Pair : \A b \in Pair \ {a} :
        /\ MapHas(clients[a].peerConnections, b)
        /\ PeerPc(a, b).remoteDescription
        /\ "screen" \in PeerPc(a, b).senders
        /\ PeerPc(a, b).signalingState = "have-local-offer"

\* C37: when both participants of an established connection have set an
\* offer for their screen-share track at the same time, both connections
\* are eventually stable again.
C37_GlareConverges ==
    Glare ~> (\A a \in Pair : \A b \in Pair \ {a} :
                 /\ MapHas(clients[a].peerConnections, b)
                 /\ PeerPc(a, b).signalingState = "stable")

\* The notification a fan-out writes after its loop.
Notification(kind) ==
    [type |-> IF kind = "addScreenShareTrack"
              THEN "screen-share-started" ELSE "screen-share-stopped",
     userId |-> SelfId, from |-> SelfId]

\* C38: a call of addScreenShareTrack or removeScreenShareTrack that has
\* not returned has written no notification; the run in which it returns
\* calls sendSignal with its notification last, whether the Map was empty
\* or iterations failed; the socket open in that run, the call has written
\* exactly one screen-share-started resp. screen-share-stopped, as the last
\* message of the call, after all its offers; the socket not open, none.
C38_OneNotificationPerCall ==
    LET r == last.run
        written == {k \in DOMAIN r.sent : r.sent[k] = Notification(r.kind)}
    IN r.kind \in FanOutKinds =>
        /\ \A k \in DOMAIN r.sent :
              r.sent[k].type \in {"screen-share-started", "screen-share-stopped"}
                 => r.sent[k] = Notification(r.kind)
        /\ ~last.done => written = {}
        /\ last.done =>
              /\ last.calls >= 1
              /\ IF ws = "open"
                 THEN /\ written = {Len(r.sent)}
                      /\ last.out # <<>>
                      /\ last.out[Len(last.out)] = Notification(r.kind)
                 ELSE written = {}

\* addScreenShareTrack returned after the renegotiation with u2 failed and
\* wrote its notification.
C38_Witness ==
    /\ last.run.kind = "addScreenShareTrack"
    /\ last.done
    /\ last.run.failed = {"u2"}
    /\ ws = "open"
    /\ last.run.sent = <<Notification("addScreenShareTrack")>>

\* ============================================================ MeetingLogger
\* What a call on the logger leaves alone: the meeting and the session store.
LoggerFrame ==
    /\ UNCHANGED <<ws, peerConnections, pcs, tasks, last, present, hist,
                   onRemoteStream, onParticipantUpdate>>
    /\ UNCHANGED <<meshVars, sessionStorage, now>>

\* persistLogs(): localStorage.setItem('meetingLogs', JSON.stringify(this.logs))
\* inside try/catch; stored tells whether setItem succeeded (it throws when the
\* quota is exceeded).
PersistLogs(lg, stored) ==
    IF lg.config.enableStorage /\ stored
    THEN [set |-> TRUE, logs |-> lg.logs]
    ELSE localStorage

\* new MeetingLogger(config): the config with its defaults, empty logs and
\* counts, initStorage() when storage is enabled (the stored array cut to its
\* last maxStoredLogs entries; readable: getItem and JSON.parse did not throw),
\* then this.log('init', 'Logger initialized', ...) at the default level info.
\* A page load constructs the logger anew over the same localStorage.
MeetingLoggerConstructor(config, readable, stored) ==
    /\ nEvents < MaxCalls
    /\ LET cfg == MakeConfig(config)
           loads == cfg.enableStorage /\ readable /\ localStorage.set
           fresh == [constructed |-> TRUE, config |-> cfg, sessionId |-> nEvents + 1,
                     logs |-> IF loads THEN Slice(localStorage.logs, cfg.maxStoredLogs)
                                       ELSE <<>>,
                     eventCounts |-> NoCounts, errorCounts |-> NoCounts]
           logs0 == IF loads THEN localStorage.logs ELSE <<>>
       IN  IF ShouldLog(cfg, "info")
           THEN /\ logger' = LogBody(fresh, "init", "info", nEvents + 1)
                /\ logged' = Append(logs0, LogEntry(fresh, "init", "info", nEvents + 1))
                /\ localStorage' = PersistLogs(logger', stored)
                /\ called' = [op |-> "constructor", category |-> "init",
                              level |-> "info", returned |-> "entry"]
           ELSE /\ logger' = fresh
                /\ logged' = logs0
                /\ UNCHANGED localStorage
                /\ called' = [op |-> "constructor", category |-> "init",
                              level |-> "info", returned |-> "undefined"]
    /\ nEvents' = nEvents + 1
    /\ LoggerFrame

\* log(category, message, data, level): returns at once unless shouldLog(level);
\* else pushes the entry, counts it, cuts the logs, persists them when storage is
\* enabled, and returns the entry.
Log(category, level, stored) ==
    /\ logger.constructed
    /\ nEvents < MaxCalls
    /\ IF ShouldLog(logger.config, level)
       THEN /\ logger' = LogBody(logger, category, level, nEvents + 1)
            /\ logged' = Append(logged, LogEntry(logger, category, level, nEvents + 1))
            /\ localStorage' = PersistLogs(logger', stored)
            /\ called' = [op |-> "log", category |-> category, level |-> level,
                          returned |-> "entry"]
       ELSE /\ UNCHANGED <<logger, logged, localStorage>>
            /\ called' = [op |-> "log", category |-> category, level |-> level,
                          returned |-> "undefined"]
    /\ nEvents' = nEvents + 1
    /\ LoggerFrame

\* clearLogs(): empty logs and counts, removeItem when storage is enabled, then
\* this.log('init', 'Logs cleared').
ClearLogs(stored) ==
    /\ logger.constructed
    /\ nEvents < MaxCalls
    /\ LET cleared == [logger EXCEPT !.logs = <<>>, !.eventCounts = NoCounts,
                                     !.errorCounts = NoCounts]
           removed == IF logger.config.enableStorage THEN NoItem ELSE localStorage
       IN  IF ShouldLog(logger.config, "info")
           THEN /\ logger' = LogBody(cleared, "init", "info", nEvents + 1)
                /\ logged' = <<LogEntry(cleared, "init", "info", nEvents + 1)>>
                /\ localStorage' = IF logger.config.enableStorage /\ stored
                                   THEN [set |-> TRUE, logs |-> logger'.logs]
                                   ELSE removed
                /\ called' = [op |-> "clearLogs", category |-> "init",
                              level |-> "info", returned |-> "entry"]
           ELSE /\ logger' = cleared
                /\ logged' = <<>>
                /\ localStorage' = removed
                /\ called' = [op |-> "clearLogs", category |-> "init",
                              level |-> "info", returned |-> "undefined"]
    /\ nEvents' = nEvents + 1
    /\ LoggerFrame

NextLogger ==
    \/ \E config \in Configs, readable \in BOOLEAN, stored \in BOOLEAN :
           MeetingLoggerConstructor(config, readable, stored)
    \/ \E category \in Categories, level \in CallLevels, stored \in BOOLEAN :
           Log(category, level, stored)
    \/ \E stored \in BOOLEAN : ClearLogs(stored)

SpecLogger == Init /\ [][NextLogger]_vars

\* The held entries are the last maxStoredLogs of those loaded or logged, in
\* their order.
MostRecent(lg, all) ==
    LET n == Len(lg.logs)
        m == Len(all)
    IN  /\ n <= lg.config.maxStoredLogs
        /\ n = IF m <= lg.config.maxStoredLogs THEN m ELSE lg.config.maxStoredLogs
        /\ \A i \in 1..n : lg.logs[i] = all[m - n + i]

\* C39: once constructed (loading earlier logs from storage included) and
\* after any sequence of calls, the logger holds at most maxStoredLogs
\* entries, and they are the most recent of the entries loaded or logged, in
\* the order they were logged; a log call whose level ranks below the
\* configured logLevel adds no entry and changes no event or error count.
C39_AtMostMaxStoredLogs ==
    [][/\ logger'.constructed => MostRecent(logger', logged')
       /\ (/\ logger.constructed
           /\ nEvents' # nEvents
           /\ called'.op = "log"
           /\ called'.level \in DOMAIN logLevels
           /\ logLevels[called'.level] < logLevels[logger.config.logLevel])
          => /\ logger'.logs = logger.logs
             /\ logger'.eventCounts = logger.eventCounts
             /\ logger'.errorCounts = logger.errorCounts
             /\ called'.returned = "undefined"]_vars

\* A logger that loaded more stored entries than it may keep, holds exactly
\* maxStoredLogs entries, one of them from the earlier session, and has just
\* turned down a call below its level.
C39_Witness ==
    /\ logger.constructed
    /\ Len(logged) > logger.config.maxStoredLogs
    /\ Len(logger.logs) = logger.config.maxStoredLogs
    /\ \E i \in DOMAIN logger.logs : logger.logs[i].sessionId # logger.sessionId
    /\ logger.logs[Len(logger.logs)].sessionId = logger.sessionId
    /\ called.op = "log"
    /\ called.returned = "undefined"

\* ================================================================ NovaState
\* What a call on NovaState leaves alone: the meeting and the logger.
NovaFrame ==
    /\ UNCHANGED <<ws, peerConnections, pcs, tasks, last, present, hist,
                   onRemoteStream, onParticipantUpdate>>
    /\ UNCHANGED <<meshVars, logger, localStorage, logged>>

\* A call of NovaState method op that returned r, within the calls of a behaviour.
NovaCall(op, r) ==
    /\ nEvents < MaxCalls
    /\ nEvents' = nEvents + 1
    /\ called' = [op |-> op, category |-> "none", level |-> "none", returned |-> r]
    /\ UNCHANGED now
    /\ NovaFrame

\* Time passes between two calls.
Advance ==
    /\ now < MaxTicks * Tick
    /\ now' = now + Tick
    /\ UNCHANGED <<sessionStorage, called, nEvents>>
    /\ NovaFrame

\* setToken(token)
SetToken(token) ==
    /\ sessionStorage' = [sessionStorage EXCEPT !.nova_jwt = token]
    /\ NovaCall("setToken", "undefined")

\* clearToken()
ClearToken ==
    /\ sessionStorage' = [sessionStorage EXCEPT !.nova_jwt = "null"]
    /\ NovaCall("clearToken", "undefined")

\* saveLoginResponse(data): false when data.accessToken is missing or empty;
\* else stores the token and the user decoded from it (the user is told apart
\* by its email, jwt.sub or the fallback '') and returns true.
SaveLoginResponse(accessToken) ==
    IF accessToken \in {"null", ""}
    THEN /\ UNCHANGED sessionStorage
         /\ NovaCall("saveLoginResponse", "false")
    ELSE /\ LET jwt == decodeJwt(accessToken)
            IN  sessionStorage' =
                    [sessionStorage EXCEPT
                        !.nova_jwt = accessToken,
                        !.nova_user = IF "sub" \in DOMAIN jwt THEN jwt.sub ELSE ""]
         /\ NovaCall("saveLoginResponse", "true")

\* setUser(obj)
SetUser(obj) ==
    /\ sessionStorage' = [sessionStorage EXCEPT !.nova_user = obj]
    /\ NovaCall("setUser", "undefined")

\* clearUser()
ClearUser ==
    /\ sessionStorage' = [sessionStorage EXCEPT !.nova_user = "null"]
    /\ NovaCall("clearUser", "undefined")

\* setMeetingCode(code)
SetMeetingCode(code) ==
    /\ sessionStorage' = [sessionStorage EXCEPT !.nova_meeting_code = code]
    /\ NovaCall("setMeetingCode", "undefined")

\* clearMeetingCode()
ClearMeetingCode ==
    /\ sessionStorage' = [sessionStorage EXCEPT !.nova_meeting_code = "null"]
    /\ NovaCall("clearMeetingCode", "undefined")

\* logout(): removes the three items.
Logout ==
    /\ sessionStorage' = EmptyStorage
    /\ NovaCall("logout", "undefined")

\* isLoggedIn(): false when getItem gives null or the empty string; when the
\* payload's exp is truthy and Date.now() / 1000 > exp, removes the token and
\* returns false; else true.  An exp of 0 is falsy, like a payload without exp.
IsLoggedIn ==
    LET token == sessionStorage.nova_jwt
        payload == decodeJwt(token)
    IN  IF token \in {"null", ""}
        THEN /\ UNCHANGED sessionStorage
             /\ NovaCall("isLoggedIn", "false")
        ELSE IF /\ "exp" \in DOMAIN payload
                /\ payload.exp # 0
                /\ now > payload.exp * 1000
             THEN /\ sessionStorage' = [sessionStorage EXCEPT !.nova_jwt = "null"]
                  /\ NovaCall("isLoggedIn", "false")
             ELSE /\ UNCHANGED sessionStorage
                  /\ NovaCall("isLoggedIn", "true")

NextSession ==
    \/ Advance
    \/ \E token \in Tokens : SetToken(token)
    \/ ClearToken
    \/ \E accessToken \in Tokens \cup {"null"} : SaveLoginResponse(accessToken)
    \/ \E obj \in UserObjects : SetUser(obj)
    \/ ClearUser
    \/ \E code \in MeetingCodes : SetMeetingCode(code)
    \/ ClearMeetingCode
    \/ Logout
    \/ IsLoggedIn

SpecSession == Init /\ [][NextSession]_vars

\* The stored token carries an expiry and Date.now() / 1000 is past it.
Expired(token) ==
    /\ token # "null"
    /\ "exp" \in DOMAIN decodeJwt(token)
    /\ now > decodeJwt(token).exp * 1000

\* C40: isLoggedIn returns true only when a token is stored and it has no
\* expiry or its expiry has not passed; when the stored token has expired it
\* returns false and removes the token, leaving the stored user and meeting
\* code as they were; logout removes token, user and meeting code.
C40_LoggedInOnlyWhileValid ==
    [][/\ (nEvents' # nEvents /\ called'.op = "isLoggedIn") =>
            /\ called'.returned = "true" =>
                   /\ sessionStorage.nova_jwt # "null"
                   /\ ~Expired(sessionStorage.nova_jwt)
            /\ Expired(sessionStorage.nova_jwt) =>
                   /\ called'.returned = "false"
                   /\ sessionStorage'.nova_jwt = "null"
                   /\ sessionStorage'.nova_user = sessionStorage.nova_user
                   /\ sessionStorage'.nova_meeting_code = sessionStorage.nova_meeting_code
       /\ (nEvents' # nEvents /\ called'.op = "logout") =>
            sessionStorage' = EmptyStorage]_vars

====
